---- MODULE Spec2Model ----
(***************************************************************************)
(* Job execution subsystem of RemoteGenerationService: the job records of  *)
(* the store, the asyncio FIFO queue, the worker loop (_worker_loop), the  *)
(* execution routine (execute_job and its progress callback), the ComfyUI  *)
(* submit/poll protocol as far as it drives progress, the cancel handler   *)
(* and the process lifespan (start_worker / stop_worker).                  *)
(*                                                                         *)
(* Granularity: one action per await point of the code.  A store commit is *)
(* the UPDATE a SQLAlchemy session flushes: it writes exactly the          *)
(* attributes assigned on the session's object since its last flush, and   *)
(* no other column.  broadcast() has no await inside, so it belongs to the *)
(* action of the commit that precedes it.                                  *)
(*                                                                         *)
(* Abstractions: progress_message, request_payload and created_at are not  *)
(* modelled; a timestamp is None or the token "ts"; a result is None or a  *)
(* token; an exception is represented by its str().                        *)
(***************************************************************************)
EXTENDS Integers, Sequences, FiniteSets, TLC

\* ---------------------------------------------------------------- bounds
MaxJobs == 2
MaxTasks == 2
MaxFaults == 1
MaxPolls == 1
MaxStreams == 2
MaxEvents == 3
MaxKeepalives == 1
MaxNodes == 2

\* ------------------------------------------------------ program constants
max_wait == 600
poll_interval == 1

JobIds == 1..MaxJobs
Tasks == 1..MaxTasks

None == <<>>
Some(v) == <<v>>

\* JobStatus values
PENDING == "pending"
RUNNING == "running"
COMPLETED == "completed"
FAILED == "failed"
CANCELLED == "cancelled"
JobStatus == {PENDING, RUNNING, COMPLETED, FAILED, CANCELLED}
Terminal == {COMPLETED, FAILED, CANCELLED}

\* (mode, job_type) pairs the submit endpoints create: the real endpoints
\* create REAL image/video jobs, the UI forms create MOCK llm jobs and
\* image/video jobs in the configured service mode.  A video job takes the
\* same path through the worker as an image job (_execute_mock assigns
\* result_files for both, _execute_real does not look at the type), so the
\* model creates image jobs for both.
SubmitKinds ==
    { [mode |-> "mock", job_type |-> "llm"],
      [mode |-> "mock", job_type |-> "image"],
      [mode |-> "real", job_type |-> "image"] }

\* str(e) of the exceptions the backends raise: httpx timeouts carry an
\* empty message, HTTPException / RuntimeError a non-empty one.
ErrMsgs == {"", "error"}

\* str(e) of the two RuntimeErrors submit_workflow raises itself:
\* f"ComfyUI error: {prompt_history['error']}", with the text the service
\* reported, and f"ComfyUI job {prompt_id} timed out or produced no output".
HistoryErrorText == "ComfyUI error: <error of the history entry>"
TimeoutText == "ComfyUI job <prompt_id> timed out or produced no output"

\* GenerationJob(...) as the submit endpoints construct it, with the column
\* defaults of the model class.
NewJob(kind) ==
    [ job_type      |-> kind.job_type,
      mode          |-> kind.mode,
      status        |-> PENDING,
      progress      |-> 0,
      started_at    |-> None,
      completed_at  |-> None,
      error_message |-> None,
      result_text   |-> None,
      result_files  |-> None ]

Columns == {"status", "progress", "started_at", "completed_at",
            "error_message", "result_text", "result_files"}

VARIABLES
    store,        \* generation_jobs table: job id -> committed row
    queue,        \* _job_queue
    submitting,   \* ids whose row is committed and whose enqueue_job is still to run
    phase,        \* lifespan: "init", "serving", "stopped"
    worker_task,  \* _worker_task: 0 (None) or the task start_worker created last
    pc,           \* per task: the await point the worker loop is suspended at
    cur,          \* per task: job_id of the loop iteration (0: none)
    job,          \* per task: the session's GenerationJob object
    dirty,        \* per task: attributes assigned since the session's last flush
    xpc,          \* per task: position inside execute_job
    elapsed,      \* per task: submit_workflow's elapsed
    creq,         \* per job id: a cancel request has passed its status check and awaits its commit
    nfaults,      \* store operations that raised so far
    published,    \* per job id: last event handed to broadcast, None before the first
    enq_order,    \* history: ids in the order enqueue_job put them
    deq_order,    \* history: ids in the order _job_queue.get() returned them
    run_order,    \* history: ids in the order the worker committed them RUNNING
    hit_in_exec   \* history: the ids in execution for which a cancel request
                  \* committed while their execute_job call was in flight

svars == <<store, queue, submitting>>
lvars == <<phase, worker_task>>
wvars == <<pc, cur, job, dirty, xpc, elapsed>>
cvars == <<creq>>
hvars == <<enq_order, deq_order, run_order, hit_in_exec>>
vars == <<store, queue, submitting, phase, worker_task, pc, cur, job, dirty,
          xpc, elapsed, creq, nfaults, published, enq_order,
          deq_order, run_order, hit_in_exec>>

\* The progress bus (events.py), driven on its own by BusSpec below.
VARIABLES
    subscribers,  \* _subscribers: job id -> list of channels (by stream number)
    chan,         \* per stream: the messages in the asyncio.Queue subscribe gave it
    spc,          \* per stream: "new", "wait" (in wait_for(q.get())), "yield"
                  \* (suspended at `yield message`), "yield_ka" (suspended at
                  \* the keepalive yield), "done" (left by break), "closed"
    sjob,         \* per stream: the job id it was opened for (0: none)
    yielded,      \* history, per stream: the messages it has yielded
    since,        \* history, per stream: broadcast calls made before it subscribed
    pub_log,      \* history: the job id of each broadcast call, in call order
    nka           \* history: keepalives yielded so far

bvars == <<subscribers, chan, spc, sjob, yielded, since, pub_log, nka>>

\* ComfyUIService.inject_params, driven on its own by InjectSpec below.  The
\* workflow graph lives in a heap of dict objects, so that sharing between
\* the argument and the result is visible.
VARIABLES
    heap,         \* the dict objects: roots (graph: node id -> node address),
                  \* nodes (node: class_type, title, address of its inputs or
                  \* 0), inputs (inputs: field -> value), each by address
    arg,          \* address of the graph passed as `workflow`
    params,       \* the params mapping
    before,       \* history: the heap when inject_params was called
    wf,           \* the local `workflow` after the copy (0 before)
    seed,         \* the local `seed`
    todo,         \* node ids the for loop has still to visit
    ipc           \* "idle", "call", "loop", "done"

ivars == <<heap, arg, params, before, wf, seed, todo, ipc>>

\* The mock image endpoint (routers/mock/images.py) and the mock backend's
\* error setting, driven by MockSpec below.
VARIABLES
    mock_error_rate,  \* settings.mock_error_rate, in tenths
    mreq              \* per job id: the image_generations request that created
                      \* it: pc "none" (no such request), "generate" (awaiting
                      \* svc.generate), "commit" (awaiting the last commit),
                      \* "done" (returned), "raised" (left by the exception);
                      \* n and fmt: request.n and request.response_format

mvars == <<mock_error_rate, mreq>>

\* submit_workflow's output collection (the loops over the history entry's
\* outputs and _download_output), driven on its own by DownloadSpec below.
VARIABLES
    outputs,       \* prompt_history["outputs"]: the output nodes in order,
                   \* each with its "images", "videos" and "gifs" lists
    todo_files,    \* the file descriptors the loops have still to visit
    attempted,     \* history: the descriptors handed to _download_output
    downloaded,    \* history: per attempt, whether the download succeeded
    output_files,  \* the local `output_files`
    dpc            \* "idle", "collect", "returned", "raised"

dvars == <<outputs, todo_files, attempted, downloaded, output_files, dpc>>

\* What the last cancel request answered after reading the row, where the
\* specification records it (CancelSpec below): "none", "404", "400", or
\* "cancel" when it went on to its commit.
VARIABLE cancel_response

\* The last direct call of unsubscribe, where the specification records it
\* (RegistrySpec below): None, or its arguments and the registry it found.
VARIABLE last_unsub

\* The object a session holds when no row is loaded.
NoJob == NewJob([mode |-> "mock", job_type |-> "llm"])

Init ==
    /\ cancel_response = "none"
    /\ last_unsub = None
    /\ store = <<>>
    /\ queue = <<>>
    /\ submitting = {}
    /\ phase = "init"
    /\ worker_task = 0
    /\ pc = [t \in Tasks |-> "none"]
    /\ cur = [t \in Tasks |-> 0]
    /\ job = [t \in Tasks |-> NoJob]
    /\ dirty = [t \in Tasks |-> {}]
    /\ xpc = [t \in Tasks |-> "none"]
    /\ elapsed = [t \in Tasks |-> 0]
    /\ creq = [j \in JobIds |-> FALSE]
    /\ nfaults = 0
    /\ published = [j \in JobIds |-> None]
    /\ enq_order = <<>>
    /\ deq_order = <<>>
    /\ run_order = <<>>
    /\ hit_in_exec = {}

\* ------------------------------------------------------------ the store

\* session.commit(): the UPDATE writes the attributes assigned since the last
\* flush (d) from the session's object, and leaves every other column as the
\* row holds it at that moment.
Commit(row, obj, d) ==
    [ job_type      |-> row.job_type,
      mode          |-> row.mode,
      status        |-> IF "status" \in d THEN obj.status ELSE row.status,
      progress      |-> IF "progress" \in d THEN obj.progress ELSE row.progress,
      started_at    |-> IF "started_at" \in d THEN obj.started_at ELSE row.started_at,
      completed_at  |-> IF "completed_at" \in d THEN obj.completed_at ELSE row.completed_at,
      error_message |-> IF "error_message" \in d THEN obj.error_message ELSE row.error_message,
      result_text   |-> IF "result_text" \in d THEN obj.result_text ELSE row.result_text,
      result_files  |-> IF "result_files" \in d THEN obj.result_files ELSE row.result_files ]

\* ------------------------------------------------------- the progress bus

\* broadcast(job_id, data), seen from the publisher: the event handed to the
\* bus for job_id.
Broadcast(pub, job_id, data) == [pub EXCEPT ![job_id] = Some(data)]

\* ------------------------------------------------------------- the queue

\* enqueue_job: _job_queue.put(job_id) on the unbounded FIFO.
QueuePutFront(q, job_id) == <<job_id>> \o q
QueuePut(q, job_id) == Append(q, job_id)

\* _job_queue.get(): the oldest id.
QueueGet(q) == Head(q)

\* ---------------------------------------------------- submitting a job

\* submit_image_job / submit_video_job / the UI submit forms, up to the
\* commit of the new PENDING row (ids are fresh uuids; here the next integer).
SubmitCommit(kind) ==
    /\ phase = "serving"
    /\ Len(store) < MaxJobs
    /\ store' = Append(store, NewJob(kind))
    /\ submitting' = submitting \cup {Len(store) + 1}
    /\ UNCHANGED <<bvars, ivars, mvars, dvars, cancel_response, last_unsub>>
    /\ UNCHANGED <<queue, lvars, wvars, cvars, nfaults, published, hvars>>

\* ... and its `await enqueue_job(job.id)`.
SubmitEnqueueAgain(id) ==
    /\ id \in submitting
    /\ queue' = QueuePut(queue, id)
    /\ submitting' = submitting
    /\ enq_order' = Append(enq_order, id)
    /\ UNCHANGED <<bvars, ivars, mvars, dvars, cancel_response, last_unsub>>
    /\ UNCHANGED <<store, lvars, wvars, cvars, nfaults, published, deq_order,
                   run_order, hit_in_exec>>
SubmitEnqueue(id) ==
    /\ id \in submitting
    /\ queue' = QueuePut(queue, id)
    /\ submitting' = submitting \ {id}
    /\ enq_order' = Append(enq_order, id)
    /\ UNCHANGED <<bvars, ivars, mvars, dvars, cancel_response, last_unsub>>
    /\ UNCHANGED <<store, lvars, wvars, cvars, nfaults, published, deq_order,
                   run_order, hit_in_exec>>

\* ------------------------------------------------------- cancel requests

\* cancel_job after the SELECT: HTTPException 404 when there is no row, 400
\* when the row's status is COMPLETED, FAILED or CANCELLED; otherwise the
\* handler goes on to assign CANCELLED and commit.
CancelOutcomeUnchecked(found, status) == IF ~found THEN "404" ELSE "cancel"
CancelOutcome(found, status) ==
    IF ~found THEN "404"
    ELSE IF status \in {COMPLETED, FAILED, CANCELLED} THEN "400"
    ELSE "cancel"

\* cancel_job up to its status check, for any id, with or without a row; rec
\* says whether the specification records the answer.
CancelReadRec(j, rec) ==
    /\ phase = "serving"
    /\ ~creq[j]
    /\ LET found == j \in DOMAIN store
           outcome == CancelOutcome(found, IF found THEN store[j].status ELSE PENDING)
       IN /\ creq' = [creq EXCEPT ![j] = (outcome = "cancel")]
          /\ cancel_response' = IF rec THEN outcome ELSE cancel_response
    /\ UNCHANGED last_unsub
    /\ UNCHANGED <<bvars, ivars, mvars, dvars>>
    /\ UNCHANGED <<svars, lvars, wvars, nfaults, published, hvars>>

CancelRead(j) == CancelReadRec(j, FALSE)

\* cancel_job: job.status = CANCELLED; await db.commit().  The UPDATE writes
\* the status column only; nothing is published.
CancelCommit(j) ==
    /\ creq[j]
    /\ store' = [store EXCEPT ![j].status = CANCELLED]
    /\ creq' = [creq EXCEPT ![j] = FALSE]
    /\ hit_in_exec' = IF \E t \in Tasks : pc[t] = "exec" /\ cur[t] = j
                      THEN hit_in_exec \cup {j}
                      ELSE hit_in_exec
    /\ UNCHANGED <<bvars, ivars, mvars, dvars, cancel_response, last_unsub>>
    /\ UNCHANGED <<queue, submitting, lvars, wvars, nfaults, published,
                   enq_order, deq_order, run_order>>

\* --------------------------------------------------------------- lifespan

\* lifespan calls start_worker once, during startup.
CanStartWorkerAgain == phase \in {"init", "serving"} /\ \E t \in Tasks : pc[t] = "none"
CanStartWorker == phase = "init"

\* start_worker: _worker_task = asyncio.create_task(_worker_loop()).
Startup ==
    /\ CanStartWorker
    /\ LET t == CHOOSE u \in Tasks : pc[u] = "none" /\ \A v \in Tasks : pc[v] = "none" => u <= v
       IN /\ worker_task' = t
          /\ pc' = [pc EXCEPT ![t] = "get"]
    /\ phase' = "serving"
    /\ UNCHANGED <<bvars, ivars, mvars, dvars, cancel_response, last_unsub>>
    /\ UNCHANGED <<svars, cur, job, dirty, xpc, elapsed, cvars, nfaults, published, hvars>>

\* -------------------------------------------------------- the worker loop

\* What the handler `except Exception` at the bottom of the loop body does
\* with an error that escapes the body: log it and go back to `while True`,
\* i.e. to the next _job_queue.get().
OnUnhandledErrorExit == "exited"
OnUnhandledError == "get"

\* Control leaves the loop body for the top of the loop: the session closes.
BackToGet(t, to) ==
    /\ pc' = [pc EXCEPT ![t] = to]
    /\ cur' = [cur EXCEPT ![t] = 0]
    /\ job' = [job EXCEPT ![t] = NoJob]
    /\ dirty' = [dirty EXCEPT ![t] = {}]
    /\ xpc' = [xpc EXCEPT ![t] = "none"]
    /\ elapsed' = [elapsed EXCEPT ![t] = 0]
    /\ hit_in_exec' = hit_in_exec \ {cur[t]}

\* job_id = await _job_queue.get()
Dequeue(t) ==
    /\ pc[t] = "get"
    /\ queue # <<>>
    /\ cur' = [cur EXCEPT ![t] = QueueGet(queue)]
    /\ queue' = Tail(queue)
    /\ deq_order' = Append(deq_order, QueueGet(queue))
    /\ pc' = [pc EXCEPT ![t] = "lookup"]
    /\ UNCHANGED <<bvars, ivars, mvars, dvars, cancel_response, last_unsub>>
    /\ UNCHANGED <<store, submitting, lvars, job, dirty, xpc, elapsed, cvars,
                   nfaults, published, enq_order, run_order, hit_in_exec>>

\* `if job.status != JobStatus.PENDING: ... continue`: the worker goes on
\* with a job only when the row it read is PENDING.
DispatchableAlways(status) == TRUE
Dispatchable(status) == status = PENDING

\* The SELECT, the two early `continue`s and the assignments
\* job.status = RUNNING; job.started_at = now, up to `await db.commit()`.
Lookup(t) ==
    /\ pc[t] = "lookup"
    /\ IF cur[t] \notin DOMAIN store
       THEN BackToGet(t, "get")
       ELSE IF ~Dispatchable(store[cur[t]].status)
       THEN BackToGet(t, "get")
       ELSE /\ job' = [job EXCEPT ![t] =
                         [store[cur[t]] EXCEPT !.status = RUNNING,
                                               !.started_at = Some("ts")]]
            /\ dirty' = [dirty EXCEPT ![t] = {"status", "started_at"}]
            /\ pc' = [pc EXCEPT ![t] = "commit_running"]
            /\ UNCHANGED <<cur, xpc, elapsed, hit_in_exec>>
    /\ UNCHANGED <<bvars, ivars, mvars, dvars, cancel_response, last_unsub>>
    /\ UNCHANGED <<svars, lvars, cvars, nfaults, published, enq_order,
                   deq_order, run_order>>

\* await db.commit() of the RUNNING transition.
CommitRunning(t) ==
    /\ pc[t] = "commit_running"
    /\ store' = [store EXCEPT ![cur[t]] = Commit(@, job[t], dirty[t])]
    /\ dirty' = [dirty EXCEPT ![t] = {}]
    /\ run_order' = Append(run_order, cur[t])
    /\ pc' = [pc EXCEPT ![t] = "refresh"]
    /\ UNCHANGED <<bvars, ivars, mvars, dvars, cancel_response, last_unsub>>
    /\ UNCHANGED <<queue, submitting, lvars, cur, job, xpc, elapsed, cvars,
                   nfaults, published, enq_order, deq_order, hit_in_exec>>

\* await db.refresh(job): the object takes the row's current columns; then
\* execute_job is entered.
Refresh(t) ==
    /\ pc[t] = "refresh"
    /\ job' = [job EXCEPT ![t] = store[cur[t]]]
    /\ pc' = [pc EXCEPT ![t] = "exec"]
    /\ xpc' = [xpc EXCEPT ![t] = "start"]
    /\ UNCHANGED <<bvars, ivars, mvars, dvars, cancel_response, last_unsub>>
    /\ UNCHANGED <<svars, lvars, cur, dirty, elapsed, cvars, nfaults,
                   published, hvars>>

\* A store operation of the loop body outside the inner try (the SELECT, the
\* RUNNING commit, the refresh, the terminal commit) raises: the error
\* reaches the loop's `except Exception`.
StoreRaises(t) ==
    /\ pc[t] \in {"lookup", "commit_running", "refresh", "commit_final"}
    /\ nfaults < MaxFaults
    /\ nfaults' = nfaults + 1
    /\ BackToGet(t, OnUnhandledError)
    /\ UNCHANGED <<bvars, ivars, mvars, dvars, cancel_response, last_unsub>>
    /\ UNCHANGED <<svars, lvars, cvars, published, enq_order, deq_order,
                   run_order>>

\* ------------------------------------------------------------ execute_job

Min(a, b) == IF a <= b THEN a ELSE b

\* submit_workflow's estimate: min(int((elapsed / 30) * 80), 80).
RampPct(e) == Min((e * 80) \div 30, 80)

\* The points of execute_job at which `await progress(pct, msg)` is pending,
\* and the pct each passes.
ProgressPoints == {"start", "m_p10", "m_p90", "r_loaded", "r_injected",
                   "r_queued", "r_ramp", "r_p95", "r_p95_empty", "r_p98"}

Pct(x, e) ==
    CASE x = "start"       -> 1     \* execute_job: progress(1, "Starting")
      [] x = "m_p10"       -> 10    \* _execute_mock: "Processing mock request"
      [] x = "m_p90"       -> 90    \* _execute_mock: "Finalizing"
      [] x = "r_loaded"    -> 5     \* _execute_real: "Loaded workflow"
      [] x = "r_injected"  -> 10    \* _execute_real: "Parameters injected"
      [] x = "r_queued"    -> 5     \* submit_workflow: "Queued in ComfyUI"
      [] x = "r_ramp"      -> RampPct(e)  \* submit_workflow: "Generating..."
      [] x = "r_p95"       -> 95    \* submit_workflow: "Downloading outputs"
      [] x = "r_p95_empty" -> 95
      [] x = "r_p98"       -> 98    \* _execute_real: "Outputs saved"

\* Where execute_job goes once the progress call at x has returned.
AfterProgress(x, mode) ==
    CASE x = "start"       -> IF mode = "mock" THEN "m_p10" ELSE "r_resolve"
      [] x = "m_p10"       -> "m_call"
      [] x = "m_p90"       -> "return"
      [] x = "r_loaded"    -> "r_injected"
      [] x = "r_injected"  -> "r_post"
      [] x = "r_queued"    -> "r_poll"
      [] x = "r_ramp"      -> "r_poll"
      [] x = "r_p95"       -> "r_p98"
      [] x = "r_p95_empty" -> "raise"  \* `if not output_files: raise RuntimeError`
      [] x = "r_p98"       -> "return"

\* The worker's assignments after execute_job returned.
Completed(obj) ==
    [obj EXCEPT !.status = COMPLETED, !.completed_at = Some("ts"), !.progress = 100]

\* The worker's assignments in `except Exception as e`.
Failed(obj, msg) ==
    [obj EXCEPT !.status = FAILED, !.error_message = Some(msg),
                !.completed_at = Some("ts")]

\* execute_job goes on from an await with object obj and unflushed
\* attributes d: to its next await (nxt), or out of execute_job by returning
\* or raising str(e) = msg, which takes the worker to its terminal commit.
Resume(t, obj, d, nxt, msg) ==
    /\ job' = [job EXCEPT ![t] =
                 CASE nxt = "return" -> Completed(obj)
                   [] nxt = "raise"  -> Failed(obj, msg)
                   [] OTHER          -> obj]
    /\ dirty' = [dirty EXCEPT ![t] =
                 CASE nxt = "return" -> d \cup {"status", "completed_at", "progress"}
                   [] nxt = "raise"  -> d \cup {"status", "error_message", "completed_at"}
                   [] OTHER          -> d]
    /\ pc' = [pc EXCEPT ![t] = IF nxt \in {"return", "raise"} THEN "commit_final" ELSE "exec"]
    /\ xpc' = [xpc EXCEPT ![t] = IF nxt \in {"return", "raise"} THEN "none" ELSE nxt]
    /\ elapsed' = [elapsed EXCEPT ![t] = IF nxt \in {"r_poll", "r_ramp"} THEN @ ELSE 0]

\* output_files as submit_workflow returns it: the local paths of the
\* downloads that succeeded, at least one.
OutputFiles == <<"outputs/images/<name>">>

\* `while elapsed < max_wait`, tested when submit_workflow is about to begin
\* a turn of the poll loop (nxt = "r_poll") with e elapsed: past the bound
\* the loop ends with output_files empty and the RuntimeError of line 192
\* is raised.
LoopTestLate(nxt, e) == IF nxt = "r_poll" /\ e > max_wait THEN "raise" ELSE nxt
LoopTest(nxt, e) == IF nxt = "r_poll" /\ e >= max_wait THEN "raise" ELSE nxt

\* _progress(job, db, pct, msg): job.progress = pct; await db.commit();
\* broadcast(job.id, {"status": "running", "progress": pct, ...}); and the
\* synchronous code of the caller up to its next await.  The assignment
\* job.result_files = output_files precedes progress(98).
ExecProgress(t) ==
    /\ pc[t] = "exec"
    /\ xpc[t] \in ProgressPoints
    /\ LET pct == Pct(xpc[t], elapsed[t])
           obj == [job[t] EXCEPT !.progress = pct]
           nxt == LoopTest(AfterProgress(xpc[t], job[t].mode), elapsed[t])
       IN /\ store' = [store EXCEPT ![cur[t]] = Commit(@, obj, dirty[t] \cup {"progress"})]
          /\ published' = Broadcast(published, cur[t],
                                    [status |-> RUNNING, progress |-> pct])
          /\ IF nxt = "r_p98"
             THEN Resume(t, [obj EXCEPT !.result_files = Some(OutputFiles)],
                         {"result_files"}, nxt, "")
             ELSE Resume(t, obj, {}, nxt, TimeoutText)
    /\ UNCHANGED <<bvars, ivars, mvars, dvars, cancel_response, last_unsub>>
    /\ UNCHANGED <<queue, submitting, lvars, cur, cvars, nfaults, hvars>>

\* The commit inside _progress raises: the session rolls back what was
\* unflushed and the error leaves execute_job.
ProgressRaises(t) ==
    /\ pc[t] = "exec"
    /\ xpc[t] \in ProgressPoints
    /\ nfaults < MaxFaults
    /\ nfaults' = nfaults + 1
    /\ Resume(t, job[t], {}, "raise", "error")
    /\ UNCHANGED <<bvars, ivars, mvars, dvars, cancel_response, last_unsub>>
    /\ UNCHANGED <<svars, lvars, cur, cvars, published, hvars>>

\* settings.mock_error_rate (0.0 .. 1.0) and the values random.random()
\* returns (0.0 <= x < 1.0), both in tenths.
ErrorRates == {0, 5, 10}
Draws == {0, 5, 9}

\* MockImageService.generate: `if random.random() < settings.mock_error_rate:
\* raise HTTPException(...)`.
MockFails(rate, draw) == draw < rate

\* ImageGenerationRequest.n: Field(default=1, ge=1, le=10), and
\* response_format.
n_default == 1
n_ge == 1
n_le == 10
ImageCounts == n_ge..n_le
ResponseFormats == {"url", "b64_json"}

\* MockImageService.generate, the loop `for _ in range(request.n)`: one
\* ImageData per turn, with b64_json or url set by response_format ("" for
\* the field left None).
ImagesOne(n, fmt) ==
    << IF fmt = "b64_json" THEN [url |-> "", b64_json |-> "<base64 png>"]
       ELSE [url |-> "/static/img/placeholder.png", b64_json |-> ""] >>
Images(n, fmt) ==
    [i \in 1..n |->
       IF fmt = "b64_json" THEN [url |-> "", b64_json |-> "<base64 png>"]
       ELSE [url |-> "/static/img/placeholder.png", b64_json |-> ""]]

\* [d.url or d.b64_json or "" for d in data].
ResultFiles(data) ==
    [i \in DOMAIN data |->
       IF data[i].url # "" THEN data[i].url ELSE data[i].b64_json]

\* The mock backend's outcomes for an image job at the current setting; the
\* chat service decides by itself.
MockMayReturn(obj) ==
    obj.job_type = "image" => \E draw \in Draws : ~MockFails(mock_error_rate, draw)
MockMayRaise(obj) ==
    obj.job_type = "image" => \E draw \in Draws : MockFails(mock_error_rate, draw)

\* _execute_mock: the mock service returns; result_text (llm) or
\* result_files (image, video) is assigned.  The payload the UI form stores
\* has no "n" and no "response_format": the request validates to the
\* defaults.
MockCall(t) ==
    /\ pc[t] = "exec"
    /\ xpc[t] = "m_call"
    /\ MockMayReturn(job[t])
    /\ IF job[t].job_type = "llm"
       THEN Resume(t, [job[t] EXCEPT !.result_text = Some("text")],
                   dirty[t] \cup {"result_text"}, "m_p90", "")
       ELSE Resume(t, [job[t] EXCEPT !.result_files =
                                       Some(ResultFiles(Images(n_default, "url")))],
                   dirty[t] \cup {"result_files"}, "m_p90", "")
    /\ UNCHANGED <<bvars, ivars, mvars, dvars, cancel_response, last_unsub>>
    /\ UNCHANGED <<svars, lvars, cur, cvars, nfaults, published, hvars>>

\* str(e) of the RuntimeErrors _execute_real raises before progress(5).
RealLlmText == "Real LLM mode is not supported. LLM is always mocked."
ConfigErrorText == "No ComfyUI workflow specified and no workflows are available. Upload a workflow in Settings > Models."
NotFoundText == "Workflow '<name>' not found"

\* workflow_name after `if not workflow_name and workflows: workflow_name =
\* workflows[0]` is non-empty: the payload names a workflow (named) or some
\* workflow is stored (stored).
HasWorkflowNameAlways(named, stored) == TRUE
HasWorkflowName(named, stored) == named \/ stored

\* _execute_real between progress(1) and progress(5): a real LLM job, no
\* workflow name with none stored, or a named workflow whose file does not
\* exist (found: load_workflow finds the file) raise a RuntimeError;
\* otherwise the workflow is loaded.
ResolveWorkflow(t, named, stored, found) ==
    /\ pc[t] = "exec"
    /\ xpc[t] = "r_resolve"
    /\ found => stored
    /\ ~named /\ stored => found
    /\ CASE job[t].job_type = "llm" ->
                Resume(t, job[t], dirty[t], "raise", RealLlmText)
         [] job[t].job_type # "llm" /\ ~HasWorkflowName(named, stored) ->
                Resume(t, job[t], dirty[t], "raise", ConfigErrorText)
         [] job[t].job_type # "llm" /\ HasWorkflowName(named, stored) /\ ~found ->
                Resume(t, job[t], dirty[t], "raise", NotFoundText)
         [] OTHER ->
                Resume(t, job[t], dirty[t], "r_loaded", "")
    /\ UNCHANGED <<bvars, ivars, mvars, dvars, cancel_response, last_unsub>>
    /\ UNCHANGED <<svars, lvars, cur, cvars, nfaults, published, hvars>>

RealResolve(t) ==
    \E named, stored, found \in BOOLEAN : ResolveWorkflow(t, named, stored, found)

\* submit_workflow: POST /prompt answered with a prompt_id.
RealPost(t) ==
    /\ pc[t] = "exec"
    /\ xpc[t] = "r_post"
    /\ Resume(t, job[t], dirty[t], "r_queued", "")
    /\ UNCHANGED <<bvars, ivars, mvars, dvars, cancel_response, last_unsub>>
    /\ UNCHANGED <<svars, lvars, cur, cvars, nfaults, published, hvars>>

\* Where submit_workflow goes when the history entry holds "error":
\* `raise RuntimeError(...)`, before the outputs are looked at.
OnHistoryErrorDownload == "r_p95"
OnHistoryError == "raise"

\* submit_workflow: one turn of `while elapsed < max_wait`: sleep,
\* elapsed += poll_interval, then GET /history, answered as `answer`.  A
\* non-200 answer goes to the next turn (or out of the loop, by LoopTest);
\* an answer without the prompt_id reports the ramp; an entry with "error"
\* raises; an entry with outputs downloads them (files: whether any download
\* succeeded) and reports 95.  cap bounds the turns that find no entry.
PollAnswer(t, answer, cap) ==
    /\ pc[t] = "exec"
    /\ xpc[t] = "r_poll"
    /\ answer \in {"non200", "absent"} => elapsed[t] < cap
    /\ LET e == elapsed[t] + poll_interval
       IN CASE answer = "non200" ->
                 IF LoopTest("r_poll", e) = "raise"
                 THEN Resume(t, job[t], dirty[t], "raise", TimeoutText)
                 ELSE /\ elapsed' = [elapsed EXCEPT ![t] = e]
                      /\ UNCHANGED <<pc, job, dirty, xpc>>
            [] answer = "absent" ->
                 /\ elapsed' = [elapsed EXCEPT ![t] = e]
                 /\ xpc' = [xpc EXCEPT ![t] = "r_ramp"]
                 /\ UNCHANGED <<pc, job, dirty>>
            [] answer = "error" ->
                 Resume(t, job[t], dirty[t], OnHistoryError, HistoryErrorText)
            [] answer = "files" ->
                 Resume(t, job[t], dirty[t], "r_p95", "")
            [] answer = "nofiles" ->
                 Resume(t, job[t], dirty[t], "r_p95_empty", "")
    /\ UNCHANGED <<bvars, ivars, mvars, dvars, cancel_response, last_unsub>>
    /\ UNCHANGED <<svars, lvars, cur, cvars, nfaults, published, hvars>>

HistoryAnswers == {"non200", "absent", "error", "files", "nofiles"}

\* The poll turn as the worker specification takes it: at most MaxPolls
\* turns of a job find no entry.
RealPoll(t) == \E answer \in HistoryAnswers : PollAnswer(t, answer, MaxPolls)

\* An awaited backend call inside execute_job raises e with str(e) = msg: the
\* mock service (HTTPException, non-empty), or the HTTP client in POST
\* /prompt or GET /history (httpx errors; a timeout's str() is empty).
ExecRaises(t, msg) ==
    /\ pc[t] = "exec"
    /\ xpc[t] \in {"m_call", "r_post", "r_poll"}
    /\ xpc[t] = "m_call" => msg # "" /\ MockMayRaise(job[t])
    /\ Resume(t, job[t], dirty[t], "raise", msg)
    /\ UNCHANGED <<bvars, ivars, mvars, dvars, cancel_response, last_unsub>>
    /\ UNCHANGED <<svars, lvars, cur, cvars, nfaults, published, hvars>>

\* The terminal `await db.commit()`, the final broadcast and task_done().
FinalCommit(t) ==
    /\ pc[t] = "commit_final"
    /\ store' = [store EXCEPT ![cur[t]] = Commit(@, job[t], dirty[t])]
    /\ published' = Broadcast(published, cur[t],
                              [status |-> job[t].status,
                               progress |-> job[t].progress,
                               error_message |-> job[t].error_message])
    /\ BackToGet(t, "get")
    /\ UNCHANGED <<bvars, ivars, mvars, dvars, cancel_response, last_unsub>>
    /\ UNCHANGED <<queue, submitting, lvars, cvars, nfaults, enq_order,
                   deq_order, run_order>>

\* ------------------------------------------------------------- shutdown

\* The awaits of the loop that are a store commit, and what each would write.
PendingCommit(t) ==
    CASE pc[t] \in {"commit_running", "commit_final"} ->
             Commit(store[cur[t]], job[t], dirty[t])
      [] pc[t] = "exec" /\ xpc[t] \in ProgressPoints ->
             Commit(store[cur[t]],
                    [job[t] EXCEPT !.progress = Pct(xpc[t], elapsed[t])],
                    dirty[t] \cup {"progress"})
      [] OTHER -> store[cur[t]]

\* lifespan shutdown, after the server has drained its requests:
\* stop_worker cancels _worker_task and awaits it.  CancelledError is thrown
\* into the await the loop is suspended at.  Inside execute_job the inner
\* handler assigns CANCELLED and completed_at to the object and re-raises
\* past the terminal commit; everywhere the outer handler breaks out of the
\* loop.  A commit that was being awaited may or may not have reached the
\* store (landed); nothing after the await runs.
Shutdown ==
    /\ phase = "serving"
    /\ submitting = {}
    /\ \A j \in JobIds : ~creq[j]
    /\ phase' = "stopped"
    /\ LET t == worker_task
       IN /\ pc[t] \notin {"none", "exited"}
          /\ \E landed \in BOOLEAN :
               /\ landed => cur[t] \in DOMAIN store /\ PendingCommit(t) # store[cur[t]]
               /\ store' = IF landed
                           THEN [store EXCEPT ![cur[t]] = PendingCommit(t)]
                           ELSE store
               /\ run_order' = IF landed /\ pc[t] = "commit_running"
                               THEN Append(run_order, cur[t])
                               ELSE run_order
          /\ BackToGet(t, "exited")
    /\ UNCHANGED <<bvars, ivars, mvars, dvars, cancel_response, last_unsub>>
    /\ UNCHANGED <<queue, submitting, worker_task, cvars, nfaults, published,
                   enq_order, deq_order>>

\* ------------------------------------------------------- the specification

Next ==
    \/ Startup
    \/ Shutdown
    \/ \E kind \in SubmitKinds : SubmitCommit(kind)
    \/ \E id \in JobIds : SubmitEnqueue(id)
    \/ \E j \in JobIds : CancelRead(j)
    \/ \E j \in JobIds : CancelCommit(j)
    \/ \E t \in Tasks : Dequeue(t)
    \/ \E t \in Tasks : Lookup(t)
    \/ \E t \in Tasks : CommitRunning(t)
    \/ \E t \in Tasks : Refresh(t)
    \/ \E t \in Tasks : StoreRaises(t)
    \/ \E t \in Tasks : ExecProgress(t)
    \/ \E t \in Tasks : ProgressRaises(t)
    \/ \E t \in Tasks : MockCall(t)
    \/ \E t \in Tasks : RealResolve(t)
    \/ \E t \in Tasks : RealPost(t)
    \/ \E t \in Tasks : RealPoll(t)
    \/ \E t \in Tasks, msg \in ErrMsgs : ExecRaises(t, msg)
    \/ \E t \in Tasks : FinalCommit(t)

\* ============================================================ progress bus
\* events.py on its own: the registry _subscribers, the channels subscribe
\* creates, broadcast, and the streams (event_generator) that consume them.
\* BusSpec drives it with any job ids and events; the worker does not move.

\* asyncio.Queue() as subscribe constructs it: no maxsize argument, i.e.
\* maxsize 0, which asyncio reads as "no limit".
maxsize == 0

Streams == 1..MaxStreams

\* The data a publisher passes: its "status" and, to tell events apart, the
\* number of the broadcast call that carried it.
EventStatuses == {RUNNING, COMPLETED, FAILED, CANCELLED}

\* message = f"data: {json.dumps(data)}\n\n"
Message(data) == [prefix |-> "data: ", body |-> data, suffix |-> "\n\n"]

\* ": keepalive\n\n", an SSE comment line.
Keepalive == [prefix |-> ": ", body |-> [status |-> "keepalive", seq |-> 0],
              suffix |-> "\n\n"]

\* json.loads(message.removeprefix("data: ").strip()): the data of a data
\* message; what is left of any other line is no JSON and loads raises.
Loads(message) ==
    IF message.prefix = "data: " THEN Some(message.body) ELSE None

\* data.get("status") in ("completed", "failed", "cancelled")
IsTerminalEventNoCancelled(data) == data.status \in {COMPLETED, FAILED}
IsTerminalEvent(data) == data.status \in {COMPLETED, FAILED, CANCELLED}

BusInit ==
    /\ subscribers = <<>>
    /\ chan = [s \in Streams |-> <<>>]
    /\ spc = [s \in Streams |-> "new"]
    /\ sjob = [s \in Streams |-> 0]
    /\ yielded = [s \in Streams |-> <<>>]
    /\ since = [s \in Streams |-> 0]
    /\ pub_log = <<>>
    /\ nka = 0

\* _subscribers[job_id] on the defaultdict: the list, [] for a missing key.
ListOf(subs, job_id) == IF job_id \in DOMAIN subs THEN subs[job_id] ELSE <<>>

\* list.remove(q): the list without its first q; ValueError (here: the list
\* unchanged) when q is not in it.
RECURSIVE Remove(_, _)
Remove(lst, q) ==
    IF lst = <<>> THEN <<>>
    ELSE IF Head(lst) = q THEN Tail(lst)
    ELSE <<Head(lst)>> \o Remove(Tail(lst), q)

\* The registry with job_id mapped to lst.
SetKey(subs, job_id, lst) ==
    [k \in DOMAIN subs \cup {job_id} |-> IF k = job_id THEN lst ELSE subs[k]]

\* del _subscribers[job_id]
DelKey(subs, job_id) == [k \in DOMAIN subs \ {job_id} |-> subs[k]]

\* subscribe(job_id): _subscribers[job_id].append(q)
subscribe(subs, job_id, q) == SetKey(subs, job_id, Append(ListOf(subs, job_id), q))

\* unsubscribe(job_id, q): remove q (ignoring ValueError), then delete the
\* key when its list is empty.
unsubscribeKeepKey(subs, job_id, q) == SetKey(subs, job_id, Remove(ListOf(subs, job_id), q))
unsubscribe(subs, job_id, q) ==
    LET lst == Remove(ListOf(subs, job_id), q)
    IN IF lst = <<>> THEN DelKey(subs, job_id) ELSE SetKey(subs, job_id, lst)

\* q.put_nowait(message) on a FIFO queue; QueueFull when the queue is full.
put_nowait_front(q, message) == <<message>> \o q
put_nowait(q, message) == Append(q, message)

\* asyncio.Queue.full(): maxsize <= 0 is never full.
Full(q) == maxsize > 0 /\ Len(q) >= maxsize

\* The channels broadcast iterates over: list(_subscribers[job_id]) once the
\* membership test has passed.
TargetsAll(subs, job_id) == IF job_id \notin DOMAIN subs THEN {} ELSE Streams
Targets(subs, job_id) ==
    IF job_id \notin DOMAIN subs THEN {}
    ELSE { subs[job_id][i] : i \in 1..Len(subs[job_id]) }

RECURSIVE UnsubscribeAll(_, _, _)
\* `for q in dead: unsubscribe(job_id, q)`
UnsubscribeAll(subs, job_id, dead) ==
    IF dead = {} THEN subs
    ELSE LET q == CHOOSE x \in dead : TRUE
         IN UnsubscribeAll(unsubscribe(subs, job_id, q), job_id, dead \ {q})

\* The registry broadcast leaves behind: untouched when job_id is no key (the
\* `in` test creates none), otherwise without the channels found full.
RegistryAfterBroadcastDefault(subs, job_id, dead) ==
    UnsubscribeAll(SetKey(subs, job_id, ListOf(subs, job_id)), job_id, dead)
RegistryAfterBroadcast(subs, job_id, dead) ==
    IF job_id \notin DOMAIN subs THEN subs ELSE UnsubscribeAll(subs, job_id, dead)

\* broadcast(job_id, data)
broadcast(job_id, data) ==
    LET message == Message(data)
        targets == Targets(subscribers, job_id)
        dead == { q \in targets : Full(chan[q]) }
    IN /\ chan' = [q \in Streams |->
                     IF q \in targets \ dead THEN put_nowait(chan[q], message)
                     ELSE chan[q]]
       /\ subscribers' = RegistryAfterBroadcast(subscribers, job_id, dead)

\* Number of broadcast calls made so far.
npub == Len(pub_log)

\* Some publisher calls broadcast.
Publish(job_id, status) ==
    /\ npub < MaxEvents
    /\ pub_log' = Append(pub_log, job_id)
    /\ broadcast(job_id, [status |-> status, seq |-> npub + 1])
    /\ UNCHANGED <<vars, ivars, mvars, dvars, cancel_response, last_unsub>>
    /\ UNCHANGED <<spc, sjob, yielded, since, nka>>

\* GET /api/jobs/{id}/stream: event_generator(job_id) starts,
\* q = subscribe(job_id), and waits in wait_for(q.get(), timeout=30.0).
StreamOpen(s, job_id) ==
    /\ spc[s] = "new"
    /\ \A u \in Streams : u < s => spc[u] # "new"
    /\ subscribers' = subscribe(subscribers, job_id, s)
    /\ chan' = [chan EXCEPT ![s] = <<>>]
    /\ spc' = [spc EXCEPT ![s] = "wait"]
    /\ sjob' = [sjob EXCEPT ![s] = job_id]
    /\ since' = [since EXCEPT ![s] = npub]
    /\ UNCHANGED <<vars, ivars, mvars, dvars, cancel_response, last_unsub>>
    /\ UNCHANGED <<yielded, pub_log, nka>>

\* q.get() returns the oldest message; `yield message`.
StreamGet(s) ==
    /\ spc[s] = "wait"
    /\ chan[s] # <<>>
    /\ chan' = [chan EXCEPT ![s] = Tail(@)]
    /\ yielded' = [yielded EXCEPT ![s] = Append(@, Head(chan[s]))]
    /\ spc' = [spc EXCEPT ![s] = "yield"]
    /\ UNCHANGED <<vars, ivars, mvars, dvars, cancel_response, last_unsub>>
    /\ UNCHANGED <<subscribers, sjob, since, pub_log, nka>>

\* The idle window passes with the channel empty: asyncio.TimeoutError,
\* `yield ": keepalive\n\n"`.
StreamTimeout(s) ==
    /\ spc[s] = "wait"
    /\ chan[s] = <<>>
    /\ nka < MaxKeepalives
    /\ nka' = nka + 1
    /\ yielded' = [yielded EXCEPT ![s] = Append(@, Keepalive)]
    /\ spc' = [spc EXCEPT ![s] = "yield_ka"]
    /\ UNCHANGED <<vars, ivars, mvars, dvars, cancel_response, last_unsub>>
    /\ UNCHANGED <<subscribers, chan, sjob, since, pub_log>>

\* Where the stream goes when the consumer resumes it after the keepalive
\* yield in `except asyncio.TimeoutError`: round the loop to wait_for again.
AfterKeepaliveBreak == "done"
AfterKeepalive == "wait"

\* The consumer asks for the next item after a keepalive.
StreamResumeKeepalive(s) ==
    /\ spc[s] = "yield_ka"
    /\ spc' = [spc EXCEPT ![s] = AfterKeepalive]
    /\ subscribers' = IF AfterKeepalive = "wait" THEN subscribers
                      ELSE unsubscribe(subscribers, sjob[s], s)
    /\ UNCHANGED <<vars, ivars, mvars, dvars, cancel_response, last_unsub>>
    /\ UNCHANGED <<chan, sjob, yielded, since, pub_log, nka>>

\* The consumer asks for the next item after a data message: the stream
\* parses it and breaks on a terminal status (finally: unsubscribe); otherwise
\* (also when the parse raises) it loops to wait_for again.
StreamResume(s) ==
    /\ spc[s] = "yield"
    /\ LET message == yielded[s][Len(yielded[s])]
           data == Loads(message)
       IN IF data # None /\ IsTerminalEvent(data[1])
          THEN /\ subscribers' = unsubscribe(subscribers, sjob[s], s)
               /\ spc' = [spc EXCEPT ![s] = "done"]
          ELSE /\ spc' = [spc EXCEPT ![s] = "wait"]
               /\ UNCHANGED subscribers
    /\ UNCHANGED <<vars, ivars, mvars, dvars, cancel_response, last_unsub>>
    /\ UNCHANGED <<chan, sjob, yielded, since, pub_log, nka>>

\* The consumer disconnects or an error is thrown into the generator while it
\* is suspended: the finally clause runs unsubscribe(job_id, q).
StreamClose(s) ==
    /\ spc[s] \in {"wait", "yield", "yield_ka"}
    /\ subscribers' = unsubscribe(subscribers, sjob[s], s)
    /\ spc' = [spc EXCEPT ![s] = "closed"]
    /\ UNCHANGED <<vars, ivars, mvars, dvars, cancel_response, last_unsub>>
    /\ UNCHANGED <<chan, sjob, yielded, since, pub_log, nka>>

BusNext ==
    \/ \E j \in JobIds, st \in EventStatuses : Publish(j, st)
    \/ \E s \in Streams, j \in JobIds : StreamOpen(s, j)
    \/ \E s \in Streams : StreamGet(s)
    \/ \E s \in Streams : StreamTimeout(s)
    \/ \E s \in Streams : StreamResume(s)
    \/ \E s \in Streams : StreamResumeKeepalive(s)
    \/ \E s \in Streams : StreamClose(s)

\* ========================================================= inject_params
\* ComfyUIService.inject_params(workflow, params) as a pure function of a
\* graph and a params mapping, run over a bounded family of both.

\* dict.get(key, default)
Get(d, key, default) == IF key \in DOMAIN d THEN d[key] ELSE default

\* Nodes of the workflow graphs the runs start from: class_type, the title of
\* _meta, and the inputs mapping (has_inputs FALSE: the node has no "inputs").
NodeTemplates ==
    { [class_type |-> "CLIPTextEncode", title |-> "Positive", has_inputs |-> TRUE,
       inputs |-> [text |-> 1]],
      [class_type |-> "CLIPTextEncode", title |-> "Negative Prompt", has_inputs |-> TRUE,
       inputs |-> [text |-> 2]],
      [class_type |-> "EmptyLatentImage", title |-> "", has_inputs |-> TRUE,
       inputs |-> [width |-> 512, height |-> 512, batch_size |-> 1]],
      [class_type |-> "EmptyHunyuanLatentVideo", title |-> "", has_inputs |-> TRUE,
       inputs |-> [width |-> 512, length |-> 25]],
      [class_type |-> "KSampler", title |-> "", has_inputs |-> TRUE,
       inputs |-> [steps |-> 20, cfg |-> 7, seed |-> 5]],
      [class_type |-> "KSamplerAdvanced", title |-> "", has_inputs |-> TRUE,
       inputs |-> [steps |-> 20, noise_seed |-> 5]],
      [class_type |-> "VHS_VideoCombine", title |-> "", has_inputs |-> TRUE,
       inputs |-> [fps |-> 8, width |-> 64]],
      [class_type |-> "RandomNoise", title |-> "", has_inputs |-> TRUE,
       inputs |-> [noise_seed |-> 5]],
      [class_type |-> "Note", title |-> "negative", has_inputs |-> FALSE,
       inputs |-> <<>>] }

\* The params mappings the runs start from (prompts are text tokens).
ParamSets ==
    { <<>>,
      [prompt |-> 101, negative_prompt |-> 102],
      [seed |-> 42],
      [seed |-> -1, steps |-> 30, cfg_scale |-> 8],
      [width |-> 1024, height |-> 768, batch_size |-> 2, frames |-> 16, fps |-> 24] }

\* A sample of what random.randint(0, 2**32 - 1) returns.
RandomSeeds == {0, 7}

\* "negative" in title.lower() or "neg" in title.lower(), over the titles of
\* the templates.
HasNeg(title) == title \in {"Negative Prompt", "negative"}

\* json.load of a workflow file with the nodes ns (a sequence): the root dict
\* at address 1, node n at 2n, its inputs at 2n + 1.
Build(ns) ==
    [ roots  |-> (1 :> [n \in 1..Len(ns) |-> 2 * n]),
      nodes  |-> [a \in { 2 * n : n \in 1..Len(ns) } |->
                    [class_type |-> ns[a \div 2].class_type,
                     title      |-> ns[a \div 2].title,
                     inputs     |-> IF ns[a \div 2].has_inputs THEN a + 1 ELSE 0]],
      inputs |-> [a \in { 2 * n + 1 : n \in { m \in 1..Len(ns) : ns[m].has_inputs } } |->
                    ns[a \div 2].inputs] ]

\* The first address above every object of heap h.
Fresh(h) ==
    LET used == DOMAIN h.roots \cup DOMAIN h.nodes \cup DOMAIN h.inputs
    IN 1 + CHOOSE m \in used : \A a \in used : a <= m

\* copy.deepcopy(workflow): a new root at Fresh(h), a new dict for every node
\* and for every inputs mapping.
ShallowCopy(h, r) == [h EXCEPT !.roots = h.roots @@ (Fresh(h) :> h.roots[r])]
DeepCopy(h, r) ==
    LET base == Fresh(h)
        g == h.roots[r]
        withInputs == { n \in DOMAIN g : h.nodes[g[n]].inputs # 0 }
    IN [ roots  |-> h.roots @@ (base :> [n \in DOMAIN g |-> base + 2 * n - 1]),
         nodes  |-> h.nodes @@
                    [a \in { base + 2 * n - 1 : n \in DOMAIN g } |->
                       LET n == (a - base + 1) \div 2
                       IN [h.nodes[g[n]] EXCEPT
                             !.inputs = IF @ = 0 THEN 0 ELSE base + 2 * n]],
         inputs |-> h.inputs @@
                    [a \in { base + 2 * n : n \in withInputs } |->
                       h.inputs[h.nodes[g[(a - base) \div 2]].inputs]] ]

\* The body of the for loop for one node: the value each field of its inputs
\* holds afterwards.
Injected(class_type, title, inp, ps, sd) ==
    [f \in DOMAIN inp |->
       CASE f = "text" /\ class_type = "CLIPTextEncode" ->
              IF HasNeg(title) THEN Get(ps, "negative_prompt", inp[f])
              ELSE Get(ps, "prompt", inp[f])
         [] f = "width" /\ class_type \in {"EmptyLatentImage", "EmptySD3LatentImage",
                                           "EmptyHunyuanLatentVideo"} ->
              Get(ps, "width", inp[f])
         [] f = "height" /\ class_type \in {"EmptyLatentImage", "EmptySD3LatentImage",
                                            "EmptyHunyuanLatentVideo"} ->
              Get(ps, "height", inp[f])
         [] f = "batch_size" /\ class_type \in {"EmptyLatentImage", "EmptySD3LatentImage",
                                                "EmptyHunyuanLatentVideo"} ->
              Get(ps, "batch_size", inp[f])
         [] f = "length" /\ class_type \in {"EmptyLatentImage", "EmptySD3LatentImage",
                                            "EmptyHunyuanLatentVideo"} ->
              Get(ps, "frames", inp[f])
         [] f = "steps" /\ class_type \in {"KSampler", "KSamplerAdvanced"} ->
              Get(ps, "steps", inp[f])
         [] f = "cfg" /\ class_type \in {"KSampler", "KSamplerAdvanced"} ->
              Get(ps, "cfg_scale", inp[f])
         [] f \in {"seed", "noise_seed"} /\ class_type \in {"KSampler", "KSamplerAdvanced"} ->
              sd
         [] f = "fps" -> Get(ps, "fps", inp[f])
         [] OTHER -> inp[f]]

\* No call in progress (the state of these variables in the other
\* specifications).
InjectIdle ==
    /\ heap = [roots |-> <<>>, nodes |-> <<>>, inputs |-> <<>>]
    /\ arg = 0
    /\ params = <<>>
    /\ before = heap
    /\ wf = 0
    /\ seed = -1
    /\ todo = {}
    /\ ipc = "idle"

\* inject_params is about to be called on a loaded workflow.
InjectInit ==
    \E k \in 1..MaxNodes :
      \E ns \in [1..k -> NodeTemplates] :
        \E ps \in ParamSets :
          /\ heap = Build(ns)
          /\ arg = 1
          /\ params = ps
          /\ before = heap
          /\ wf = 0
          /\ seed = -1
          /\ todo = {}
          /\ ipc = "call"

\* seed = params.get("seed", -1); if seed == -1: seed = random.randint(...),
\* r being what randint returns.
ResolveSeedAlwaysRandom(ps, r) == r
ResolveSeed(ps, r) ==
    IF Get(ps, "seed", -1) = -1 THEN r ELSE Get(ps, "seed", -1)

\* workflow = copy.deepcopy(workflow); seed = params.get("seed", -1), a
\* random one for -1.
InjectCall ==
    /\ ipc = "call"
    /\ heap' = DeepCopy(heap, arg)
    /\ wf' = Fresh(heap)
    /\ \E r \in RandomSeeds : seed' = ResolveSeed(params, r)
    /\ todo' = DOMAIN heap.roots[arg]
    /\ ipc' = "loop"
    /\ UNCHANGED <<vars, bvars, mvars, dvars, cancel_response, last_unsub>>
    /\ UNCHANGED <<arg, params, before>>

\* One turn of `for node_id, node in workflow.items()`.  A node without
\* "inputs" gets a fresh empty mapping that no branch writes to.
InjectNode ==
    /\ ipc = "loop"
    /\ todo # {}
    /\ LET n == CHOOSE m \in todo : \A o \in todo : m <= o
           node == heap.nodes[heap.roots[wf][n]]
       IN /\ heap' = IF node.inputs = 0 THEN heap
                     ELSE [heap EXCEPT !.inputs[node.inputs] =
                             Injected(node.class_type, node.title, @, params, seed)]
          /\ todo' = todo \ {n}
    /\ UNCHANGED <<vars, bvars, mvars, dvars, cancel_response, last_unsub>>
    /\ UNCHANGED <<arg, params, before, wf, seed, ipc>>

\* return workflow
InjectReturn ==
    /\ ipc = "loop"
    /\ todo = {}
    /\ ipc' = "done"
    /\ UNCHANGED <<vars, bvars, mvars, dvars, cancel_response, last_unsub>>
    /\ UNCHANGED <<heap, arg, params, before, wf, seed, todo>>

InjectNext == InjectCall \/ InjectNode \/ InjectReturn

allvars == <<vars, bvars, ivars, mvars, dvars, cancel_response, last_unsub>>

\* No image_generations request; the worker specification runs at an error
\* setting strictly between 0 and 1, where the mock backend may return and
\* may raise, which covers what the worker does at either end.
NoRequest == [pc |-> "none", n |-> 0, fmt |-> ""]
MockIdle ==
    /\ mock_error_rate = 5
    /\ mreq = [j \in JobIds |-> NoRequest]

MockInit ==
    /\ mock_error_rate \in ErrorRates
    /\ mreq = [j \in JobIds |-> NoRequest]

\* No output collection in progress.
DownloadIdle ==
    /\ outputs = <<>>
    /\ todo_files = <<>>
    /\ attempted = <<>>
    /\ downloaded = <<>>
    /\ output_files = <<>>
    /\ dpc = "idle"

\* The state after construction: the worker not started, no stream open, no
\* call of inject_params in progress.
SpecInit == Init /\ BusInit /\ InjectIdle /\ MockIdle /\ DownloadIdle

\* The job subsystem; the bus and inject_params at rest.
Spec == SpecInit /\ [][Next]_allvars

\* The bus; the rest at rest.
BusSpec == SpecInit /\ [][BusNext]_allvars

\* A call of inject_params on any of the workflows and params mappings; the
\* rest at rest.
InjectSpecInit == Init /\ BusInit /\ InjectInit /\ MockIdle /\ DownloadIdle

InjectSpec == InjectSpecInit /\ [][InjectNext]_allvars

\* ------------------------------------------------------------- type check

\* ------------------------------------------------- submit_workflow alone
\* The poll loop over its whole range: one worker inside submit_workflow for
\* a REAL image job, from the POST on, with nothing else moving.

\* The worker (task 1) has committed job 1 RUNNING and execute_job has passed
\* progress(10, "Parameters injected"): submit_workflow is about to POST.
\* It is a state the worker specification reaches.
PollJob ==
    [NewJob([mode |-> "real", job_type |-> "image"])
       EXCEPT !.status = RUNNING, !.started_at = Some("ts"), !.progress = 10]

PollInit ==
    /\ cancel_response = "none"
    /\ last_unsub = None
    /\ BusInit
    /\ InjectIdle
    /\ MockIdle
    /\ DownloadIdle
    /\ store = (1 :> PollJob)
    /\ queue = <<>>
    /\ submitting = {}
    /\ phase = "serving"
    /\ worker_task = 1
    /\ pc = [t \in Tasks |-> IF t = 1 THEN "exec" ELSE "none"]
    /\ cur = [t \in Tasks |-> IF t = 1 THEN 1 ELSE 0]
    /\ job = [t \in Tasks |-> IF t = 1 THEN PollJob ELSE NoJob]
    /\ dirty = [t \in Tasks |-> {}]
    /\ xpc = [t \in Tasks |-> IF t = 1 THEN "r_post" ELSE "none"]
    /\ elapsed = [t \in Tasks |-> 0]
    /\ creq = [j \in JobIds |-> FALSE]
    /\ nfaults = 0
    /\ published = [j \in JobIds |->
                      IF j = 1 THEN Some([status |-> RUNNING, progress |-> 10])
                      ELSE None]
    /\ enq_order = <<1>>
    /\ deq_order = <<1>>
    /\ run_order = <<1>>
    /\ hit_in_exec = {}

\* A poll turn with the loop's own bound only.
PollTurn == \E answer \in HistoryAnswers : PollAnswer(1, answer, max_wait)

PollNext ==
    \/ RealPost(1)
    \/ PollTurn
    \/ ExecProgress(1)
    \/ \E msg \in ErrMsgs : ExecRaises(1, msg)
    \/ FinalCommit(1)

\* Every await of submit_workflow returns or raises (the sleep ends, the
\* HTTP client answers or times out, the commit completes), and the worker
\* task is scheduled again: weak fairness on the worker's step.
PollSpec == PollInit /\ [][PollNext]_allvars /\ WF_allvars(PollNext)

\* ------------------------------------------------ the mock image endpoint
\* POST /v1/images/generations (image_generations) creates its job row
\* RUNNING and calls the mock backend itself; the worker never sees the job.
\* MockSpec runs it next to the worker's own path for MOCK image jobs, at
\* each error setting, with no cancel request, store fault or shutdown.

\* image_generations up to its first commit: the row is created RUNNING with
\* started_at set.
ImageGenerationsCommit(n, fmt) ==
    /\ phase = "serving"
    /\ Len(store) < MaxJobs
    /\ store' = Append(store,
                       [NewJob([mode |-> "mock", job_type |-> "image"])
                          EXCEPT !.status = RUNNING, !.started_at = Some("ts")])
    /\ mreq' = [mreq EXCEPT ![Len(store) + 1] =
                   [pc |-> "generate", n |-> n, fmt |-> fmt]]
    /\ UNCHANGED <<bvars, ivars, mock_error_rate, dvars, cancel_response, last_unsub>>
    /\ UNCHANGED <<queue, submitting, lvars, wvars, cvars, nfaults, published, hvars>>

\* `response = await svc.generate(request, db)`: it returns, or its
\* HTTPException leaves the handler, which has no except clause.
ImageGenerationsGenerate(j) ==
    /\ mreq[j].pc = "generate"
    /\ \E draw \in Draws :
         mreq' = [mreq EXCEPT ![j].pc =
                    IF MockFails(mock_error_rate, draw) THEN "raised" ELSE "commit"]
    /\ UNCHANGED <<vars, bvars, ivars, mock_error_rate, dvars, cancel_response, last_unsub>>

\* job.status = COMPLETED; job.completed_at = now; job.progress = 100;
\* job.result_files = [...]; await db.commit(); return response.
ImageGenerationsFinal(j) ==
    /\ mreq[j].pc = "commit"
    /\ store' = [store EXCEPT ![j] =
                    Commit(@, [@ EXCEPT !.status = COMPLETED,
                                        !.completed_at = Some("ts"),
                                        !.progress = 100,
                                        !.result_files =
                                            Some(ResultFiles(Images(mreq[j].n, mreq[j].fmt)))],
                           {"status", "completed_at", "progress", "result_files"})]
    /\ mreq' = [mreq EXCEPT ![j].pc = "done"]
    /\ UNCHANGED <<bvars, ivars, mock_error_rate, dvars, cancel_response, last_unsub>>
    /\ UNCHANGED <<queue, submitting, lvars, wvars, cvars, nfaults, published, hvars>>

MockNext ==
    \/ Startup
    \/ SubmitCommit([mode |-> "mock", job_type |-> "image"])
    \/ \E id \in JobIds : SubmitEnqueue(id)
    \/ \E t \in Tasks : Dequeue(t)
    \/ \E t \in Tasks : Lookup(t)
    \/ \E t \in Tasks : CommitRunning(t)
    \/ \E t \in Tasks : Refresh(t)
    \/ \E t \in Tasks : ExecProgress(t)
    \/ \E t \in Tasks : MockCall(t)
    \/ \E t \in Tasks, msg \in ErrMsgs : ExecRaises(t, msg)
    \/ \E t \in Tasks : FinalCommit(t)
    \/ \E n \in ImageCounts, fmt \in ResponseFormats : ImageGenerationsCommit(n, fmt)
    \/ \E j \in JobIds : ImageGenerationsGenerate(j)
    \/ \E j \in JobIds : ImageGenerationsFinal(j)

\* The state after construction, at any error setting.
MockSpecInit == Init /\ BusInit /\ InjectIdle /\ MockInit /\ DownloadIdle

\* The mock backend's sleep ends and the handlers and the worker task are
\* scheduled again: weak fairness on their steps.
MockSpec == MockSpecInit /\ [][MockNext]_allvars /\ WF_allvars(MockNext)

\* --------------------------------------------------- collecting outputs
\* submit_workflow from the history entry without "error" on: the loops over
\* the outputs, one _download_output call per file descriptor, the report of
\* 95, `break`, and the return or the RuntimeError.  DownloadSpec runs it
\* alone, for every entry of up to MaxOutputNodes nodes.

MaxOutputNodes == 2

\* What an output node may hold under "images", "videos" and "gifs".
NodeOutputs ==
    { [images |-> <<>>, videos |-> <<>>, gifs |-> <<>>],
      [images |-> <<"a.png">>, videos |-> <<>>, gifs |-> <<>>],
      [images |-> <<"a.png", "b.png">>, videos |-> <<"c.mp4">>, gifs |-> <<>>],
      [images |-> <<>>, videos |-> <<"c.mp4">>, gifs |-> <<"d.gif">>] }

\* The descriptors of one list, each with the node and list it came from.
Tagged(node_id, key, lst) ==
    [i \in 1..Len(lst) |-> [node |-> node_id, key |-> key, filename |-> lst[i]]]

\* for node_id, node_output in outputs.items():
\*     for file_list_key in ("images", "videos", "gifs"):
\*         for file_info in node_output.get(file_list_key, []):
\* the descriptors in the order the loops meet them, from node i on.
RECURSIVE Descriptors(_, _)
Descriptors(outs, i) ==
    IF i > Len(outs) THEN <<>>
    ELSE Tagged(i, "images", outs[i].images)
         \o Tagged(i, "videos", outs[i].videos)
         \o Tagged(i, "gifs", outs[i].gifs)
         \o Descriptors(outs, i + 1)

\* `if local_path: output_files.append(local_path)`, local_path being None
\* when _download_output caught the failed GET /view.
CollectAll(files, desc, ok) == Append(files, desc)
Collect(files, desc, ok) == IF ok THEN Append(files, desc) ELSE files

\* A history entry without "error" for the prompt_id has been read.
DownloadInit ==
    /\ outputs \in UNION { [1..n -> NodeOutputs] : n \in 0..MaxOutputNodes }
    /\ todo_files = Descriptors(outputs, 1)
    /\ attempted = <<>>
    /\ downloaded = <<>>
    /\ output_files = <<>>
    /\ dpc = "collect"

\* One `local_path = await self._download_output(...)` and the append: the
\* GET /view succeeds and the file is saved, or it fails and None comes back.
DownloadOutput(ok) ==
    /\ dpc = "collect"
    /\ todo_files # <<>>
    /\ attempted' = Append(attempted, Head(todo_files))
    /\ downloaded' = Append(downloaded, ok)
    /\ output_files' = Collect(output_files, Head(todo_files), ok)
    /\ todo_files' = Tail(todo_files)
    /\ UNCHANGED <<vars, bvars, ivars, mvars, outputs, dpc, cancel_response, last_unsub>>

\* The loops are done: progress(95), `break`, then
\* `if not output_files: raise RuntimeError(...)`, else return output_files.
DownloadsDone ==
    /\ dpc = "collect"
    /\ todo_files = <<>>
    /\ dpc' = IF output_files = <<>> THEN "raised" ELSE "returned"
    /\ UNCHANGED <<vars, bvars, ivars, mvars, outputs, todo_files, attempted,
                   downloaded, output_files, cancel_response, last_unsub>>

DownloadNext ==
    \/ \E ok \in BOOLEAN : DownloadOutput(ok)
    \/ DownloadsDone

DownloadSpecInit == Init /\ BusInit /\ InjectIdle /\ MockIdle /\ DownloadInit

DownloadSpec == DownloadSpecInit /\ [][DownloadNext]_allvars

\* ------------------------------------------------------------ the registry
\* subscribe and unsubscribe of events.py called in any order with any job id
\* and any channel: a channel is a fresh asyncio.Queue when it is registered,
\* so it is in the registry at most once; unsubscribe is called for
\* registered and for unregistered channels alike.

Registered(subs, q) ==
    \E j \in DOMAIN subs : \E i \in 1..Len(subs[j]) : subs[j][i] = q

RegSubscribe(job_id, q) ==
    /\ ~Registered(subscribers, q)
    /\ subscribers' = subscribe(subscribers, job_id, q)
    /\ UNCHANGED <<chan, spc, sjob, yielded, since, pub_log, nka>>
    /\ UNCHANGED <<vars, ivars, mvars, dvars, cancel_response, last_unsub>>

RegUnsubscribe(job_id, q) ==
    /\ subscribers' = unsubscribe(subscribers, job_id, q)
    /\ last_unsub' = Some([job_id |-> job_id, q |-> q, before |-> subscribers])
    /\ UNCHANGED <<chan, spc, sjob, yielded, since, pub_log, nka>>
    /\ UNCHANGED <<vars, ivars, mvars, dvars, cancel_response>>

RegistryNext ==
    \/ \E job_id \in JobIds, q \in Streams : RegSubscribe(job_id, q)
    \/ \E job_id \in JobIds, q \in Streams : RegUnsubscribe(job_id, q)

RegistrySpec == SpecInit /\ [][RegistryNext]_allvars

\* ------------------------------------------------------ the cancel request
\* cancel_job with its answer recorded, next to the worker running MOCK llm
\* jobs, with no store fault and no shutdown.

CancelNext ==
    \/ Startup
    \/ SubmitCommit([mode |-> "mock", job_type |-> "llm"])
    \/ \E id \in JobIds : SubmitEnqueue(id)
    \/ \E j \in JobIds : CancelReadRec(j, TRUE)
    \/ \E j \in JobIds : CancelCommit(j)
    \/ \E t \in Tasks : Dequeue(t)
    \/ \E t \in Tasks : Lookup(t)
    \/ \E t \in Tasks : CommitRunning(t)
    \/ \E t \in Tasks : Refresh(t)
    \/ \E t \in Tasks : ExecProgress(t)
    \/ \E t \in Tasks : MockCall(t)
    \/ \E t \in Tasks, msg \in ErrMsgs : ExecRaises(t, msg)
    \/ \E t \in Tasks : FinalCommit(t)

CancelSpec == SpecInit /\ [][CancelNext]_allvars

\* -------------------------------------------------- the worker kept running
\* The worker executing MOCK llm jobs with store and progress faults and with
\* cancel requests, and without a shutdown. A step of the worker that can be
\* taken is taken in the end (every awaited call returns or raises, and the
\* event loop resumes the task), and so is the second step of a request
\* handler; requests and faults come or do not come.

WorkerStep(t) ==
    \/ Dequeue(t)
    \/ Lookup(t)
    \/ CommitRunning(t)
    \/ Refresh(t)
    \/ ExecProgress(t)
    \/ MockCall(t)
    \/ \E msg \in ErrMsgs : ExecRaises(t, msg)
    \/ FinalCommit(t)

HandlerStep ==
    \/ \E id \in JobIds : SubmitEnqueue(id)
    \/ \E j \in JobIds : CancelCommit(j)

LiveNext ==
    \/ Startup
    \/ SubmitCommit([mode |-> "mock", job_type |-> "llm"])
    \/ \E j \in JobIds : CancelRead(j)
    \/ HandlerStep
    \/ \E t \in Tasks : WorkerStep(t)
    \/ \E t \in Tasks : StoreRaises(t)
    \/ \E t \in Tasks : ProgressRaises(t)

LiveSpec ==
    /\ SpecInit
    /\ [][LiveNext]_allvars
    /\ WF_allvars(Startup)
    /\ WF_allvars(HandlerStep)
    /\ \A t \in Tasks : WF_allvars(WorkerStep(t))

\* ------------------------------------------------- the streams kept running
\* The streams of one job and its publisher. A stream whose consumer is still
\* connected is resumed in the end, and its wait_for returns or times out;
\* broadcasts, new streams and disconnects come or do not come.

StreamStep(s) ==
    \/ StreamGet(s)
    \/ StreamTimeout(s)
    \/ StreamResume(s)
    \/ StreamResumeKeepalive(s)

StreamLiveNext ==
    \/ \E st \in EventStatuses : Publish(1, st)
    \/ \E s \in Streams : StreamOpen(s, 1)
    \/ \E s \in Streams : StreamStep(s)
    \/ \E s \in Streams : StreamClose(s)

StreamLiveSpec ==
    /\ SpecInit
    /\ [][StreamLiveNext]_allvars
    /\ \A s \in Streams : WF_allvars(StreamStep(s))

TypeOK ==
    /\ \A j \in DOMAIN store :
         /\ store[j].status \in JobStatus
         /\ store[j].progress \in 0..100
    /\ DOMAIN store \subseteq JobIds
    /\ \A t \in Tasks :
         pc[t] \in {"none", "get", "lookup", "commit_running", "refresh",
                    "exec", "commit_final", "exited"}
    /\ phase \in {"init", "serving", "stopped"}

\* ================================================================ claims

\* The status changes of the state graph of the job state machine.
Allowed ==
    { <<PENDING, RUNNING>>, <<RUNNING, COMPLETED>>, <<RUNNING, FAILED>>,
      <<RUNNING, CANCELLED>>, <<PENDING, CANCELLED>> }

\* A step of the worker loop or of a request handler in a run in which no
\* store operation has raised: the runs the counterexamples below are
\* stated for, so that none of them rests on a failing store or on shutdown.
Regular == nfaults' = 0 /\ phase' = phase

\* C1: every change of a job's persisted status (by the worker loop or by a
\* cancel request) is one of PENDING->RUNNING, RUNNING->COMPLETED,
\* RUNNING->FAILED, RUNNING->CANCELLED, PENDING->CANCELLED.
CE_C1 ==
    [][Regular =>
       \A j \in DOMAIN store :
         store'[j].status # store[j].status
           => <<store[j].status, store'[j].status>> \in Allowed]_vars

\* C2: when a cancel request has committed CANCELLED for a job while the
\* worker's execute_job call for it was in flight, the worker's terminal
\* write leaves the persisted status CANCELLED.
CE_C2 ==
    [][Regular =>
       \A t \in Tasks :
         ( /\ pc[t] = "commit_final"
           /\ cur[t] \in hit_in_exec
           /\ store[cur[t]].status = CANCELLED
           /\ pc'[t] = "get" )
           => store'[cur[t]].status = CANCELLED]_vars

\* C3: once a cancel request has committed CANCELLED while the persisted
\* status was PENDING (the row is CANCELLED and was never started), the
\* persisted status does not become RUNNING.
CE_C3 ==
    [][Regular =>
       \A j \in DOMAIN store :
         (store[j].status = CANCELLED /\ store[j].started_at = None)
           => store'[j].status # RUNNING]_vars

\* C4: while a job is RUNNING, the progress written to its row and the
\* progress of the `running` events published for it never decrease.
CE_C4 ==
    [][Regular =>
       \A j \in DOMAIN store :
         /\ (store[j].status = RUNNING /\ store'[j].status = RUNNING)
              => store'[j].progress >= store[j].progress
         /\ ( /\ published[j] # None
              /\ published'[j] # published[j]
              /\ published[j][1].status = RUNNING
              /\ published'[j][1].status = RUNNING )
              => published'[j][1].progress >= published[j][1].progress]_vars

\* C5: in every state of the store, a job's progress is 100 if and only if
\* its status is COMPLETED.
CE_C5 ==
    (nfaults = 0 /\ phase = "serving") =>
    \A j \in DOMAIN store :
        (store[j].progress = 100) <=> (store[j].status = COMPLETED)

\* The jobs a worker task has set out to run and not yet finished: from the
\* RUNNING commit to the end of the terminal write.
Executing ==
    { cur[t] : t \in { u \in Tasks :
                 pc[u] \in {"commit_running", "refresh", "exec", "commit_final"} } }

\* C6: at every moment at most one job is being executed, and by one worker
\* task: no second job is set RUNNING or executed before the terminal write
\* of the previous one has finished, whatever the producers enqueue.
Thm_C6 ==
    /\ Cardinality(Executing) <= 1
    /\ Cardinality({ t \in Tasks : pc[t] \notin {"none", "get", "exited"} }) <= 1

\* C6 witness: a job is in execution while another id waits in the queue.
Witness_C6 ==
    /\ \E t \in Tasks : pc[t] = "exec"
    /\ Len(queue) >= 1

\* Position of id x in sequence q (0 when absent).
Pos(q, x) == IF \E i \in 1..Len(q) : q[i] = x
             THEN CHOOSE i \in 1..Len(q) : q[i] = x
             ELSE 0

\* C7: ids are dequeued in the order enqueue_job put them, and the jobs the
\* worker starts become RUNNING in that order.
Thm_C7 ==
    /\ Len(deq_order) <= Len(enq_order)
    /\ \A i \in 1..Len(deq_order) : deq_order[i] = enq_order[i]
    /\ \A i, k \in 1..Len(run_order) :
         i < k => /\ Pos(enq_order, run_order[i]) > 0
                  /\ Pos(enq_order, run_order[i]) < Pos(enq_order, run_order[k])

\* C7 witness: two jobs enqueued in the opposite order to their creation,
\* both dequeued while PENDING and started.
Witness_C7 ==
    /\ enq_order = <<2, 1>>
    /\ run_order = <<2, 1>>

\* Nothing more will happen to job j: it is not waiting to be enqueued, not
\* in the queue, not held by the worker, and no cancel request is in flight.
Settled(j) ==
    /\ j \notin submitting
    /\ \A i \in 1..Len(queue) : queue[i] # j
    /\ \A t \in Tasks : cur[t] # j
    /\ ~creq[j]

\* C8: for every job that has reached a terminal status, a final event
\* carrying that status has been published for its id (stated for jobs to
\* which nothing more will happen).
CE_C8 ==
    (nfaults = 0 /\ phase = "serving") =>
    \A j \in DOMAIN store :
        (store[j].status \in Terminal /\ Settled(j))
          => /\ published[j] # None
             /\ published[j][1].status = store[j].status

\* C9: when execute_job has raised an exception other than cancellation, the
\* worker's terminal write persists FAILED with completed_at set and a
\* non-empty error_message, and the loop goes back to the queue.
CE_C9 ==
    [][Regular =>
       \A t \in Tasks :
         ( /\ pc[t] = "commit_final"
           /\ job[t].status = FAILED
           /\ pc'[t] # "commit_final" )
           => /\ pc'[t] = "get"
              /\ store'[cur[t]].status = FAILED
              /\ store'[cur[t]].completed_at # None
              /\ store'[cur[t]].error_message \notin {None, Some("")}]_vars

\* C10: a worker task leaves its loop only in the step in which stop_worker
\* cancels it; a step in which a store operation or the execution routine
\* fails takes the loop to its terminal commit or back to _job_queue.get(),
\* and the terminal commit, raising or not, takes it back to the get.
Thm_C10 ==
    [][\A t \in Tasks :
         /\ (pc[t] # "exited" /\ pc'[t] = "exited")
              => (phase = "serving" /\ phase' = "stopped" /\ worker_task = t)
         /\ (pc[t] \notin {"none", "exited"} /\ phase' = phase)
              => pc'[t] \notin {"none", "exited"}
         /\ (nfaults' # nfaults /\ pc[t] # pc'[t])
              => pc'[t] \in {"get", "commit_final"}
         /\ (pc[t] = "commit_final" /\ pc'[t] # "commit_final" /\ phase' = phase)
              => pc'[t] = "get"]_vars

\* C10 witness: the worker executes the second id it dequeued while the row
\* of the first is still RUNNING, i.e. after the refresh or the terminal
\* commit of the first raised.
Witness_C10 ==
    /\ nfaults > 0
    /\ Len(deq_order) = 2
    /\ store[deq_order[1]].status = RUNNING
    /\ \E t \in Tasks : pc[t] = "exec" /\ cur[t] = deq_order[2]

\* C11: when stop_worker cancels the worker while execute_job for a job is in
\* flight (the row being RUNNING), the job's row ends CANCELLED with
\* completed_at set.
CE_C11 ==
    [][\A t \in Tasks :
         ( /\ nfaults = 0
           /\ phase = "serving" /\ phase' = "stopped"
           /\ worker_task = t
           /\ pc[t] = "exec"
           /\ store[cur[t]].status = RUNNING )
           => /\ store'[cur[t]].status = CANCELLED
              /\ store'[cur[t]].completed_at # None]_vars

\* C12: once a cancel request has committed CANCELLED for a job in execution
\* (started, its execute_job call in flight), no later step writes progress
\* or a result to its row or publishes a `running` event for it.
CE_C12 ==
    [][Regular =>
       \A j \in DOMAIN store :
         ( /\ store[j].status = CANCELLED
           /\ store[j].started_at # None
           /\ j \in hit_in_exec )
           => /\ store'[j].progress = store[j].progress
              /\ store'[j].result_text = store[j].result_text
              /\ store'[j].result_files = store[j].result_files
              /\ published'[j] # published[j]
                   => published'[j][1].status # RUNNING]_vars

\* ------------------------------------------------ claims on the progress bus

\* q is in the list lst.
InList(lst, q) == \E i \in 1..Len(lst) : lst[i] = q

\* The streams whose generator is alive: waiting for a message or suspended
\* at a yield.
Running == { s \in Streams : spc[s] \in {"wait", "yield", "yield_ka"} }

\* The broadcast numbers of the data messages in msgs, in order.
RECURSIVE DataSeqs(_)
DataSeqs(msgs) ==
    IF msgs = <<>> THEN <<>>
    ELSE (IF Head(msgs).prefix = "data: " THEN <<Head(msgs).body.seq>> ELSE <<>>)
         \o DataSeqs(Tail(msgs))

\* The numbers of the broadcast calls for job id j made after the first a
\* calls of log, in call order.
RECURSIVE PublishedFor(_, _, _)
PublishedFor(log, j, a) ==
    IF a >= Len(log) THEN <<>>
    ELSE (IF log[a + 1] = j THEN <<a + 1>> ELSE <<>>) \o PublishedFor(log, j, a + 1)

IsPrefix(a, b) == Len(a) <= Len(b) /\ \A i \in 1..Len(a) : a[i] = b[i]

\* msg is a data message with a terminal status.
TerminalMessage(msg) ==
    msg.prefix = "data: " /\ msg.body.status \in {COMPLETED, FAILED, CANCELLED}

\* C13: a broadcast call for job_id appends its event, once, to the channel
\* of every stream registered under job_id when it is called, and changes no
\* other channel.
Thm_C13 ==
    [][pub_log' # pub_log =>
       LET job_id == pub_log'[Len(pub_log')]
       IN \E st \in EventStatuses :
            \A q \in Streams :
              chan'[q] =
                IF job_id \in DOMAIN subscribers /\ InList(subscribers[job_id], q)
                THEN Append(chan[q], Message([status |-> st, seq |-> Len(pub_log')]))
                ELSE chan[q]]_bvars

\* C13 witness: two streams registered under different job ids; the one
\* broadcast made so far reached the first and not the second.
Witness_C13 ==
    /\ spc[1] = "wait" /\ spc[2] = "wait"
    /\ sjob[1] # sjob[2]
    /\ pub_log = <<sjob[1]>>
    /\ Len(chan[1]) = 1
    /\ chan[2] = <<>>

\* C14: every channel has a fixed positive capacity that the number of
\* messages it holds never exceeds.
CE_C14 ==
    \A s \in Streams :
        chan[s] # <<>> => (maxsize > 0 /\ Len(chan[s]) <= maxsize)

\* C15: a broadcast for a job id that is no key of the registry changes
\* neither the registry nor any channel, and no channel ever holds or has
\* yielded an event published before its stream subscribed.
Thm_C15 ==
    [][/\ (pub_log' # pub_log /\ pub_log'[Len(pub_log')] \notin DOMAIN subscribers)
            => (subscribers' = subscribers /\ chan' = chan)
       /\ \A s \in Streams :
            /\ \A i \in 1..Len(chan'[s]) : chan'[s][i].body.seq > since'[s]
            /\ \A i \in 1..Len(yielded'[s]) :
                 yielded'[s][i].prefix = "data: "
                   => yielded'[s][i].body.seq > since'[s]]_bvars

\* C15 witness: a stream subscribed to a job id after an event was published
\* for that id, and has that event neither in its channel nor yielded.
Witness_C15 ==
    \E s \in Streams :
        /\ spc[s] = "wait"
        /\ since[s] >= 1
        /\ pub_log[1] = sjob[s]
        /\ chan[s] = <<>>
        /\ yielded[s] = <<>>
        /\ Len(pub_log) = since[s]

\* C16: a stream yields the events published for its job id after it
\* subscribed, none skipped, up to and including the first terminal one; it
\* yields nothing after a terminal event, ends once resumed after it, and
\* ends by itself only then.
Thm_C16 ==
    \A s \in Streams :
        /\ IsPrefix(DataSeqs(yielded[s]), PublishedFor(pub_log, sjob[s], since[s]))
        /\ \A i \in 1..Len(yielded[s]) :
             TerminalMessage(yielded[s][i])
               => (i = Len(yielded[s]) /\ spc[s] \in {"yield", "done", "closed"})
        /\ spc[s] = "done"
             => (yielded[s] # <<>> /\ TerminalMessage(yielded[s][Len(yielded[s])]))

\* C16 witness: a stream has ended after yielding a running event and then a
\* cancelled event, while a later event for its job id lies in its channel.
Witness_C16 ==
    \E s \in Streams :
        /\ spc[s] = "done"
        /\ Len(yielded[s]) = 2
        /\ yielded[s][1].body.status = RUNNING
        /\ yielded[s][2].body.status = CANCELLED
        /\ chan[s] # <<>>

\* C17: the registry holds exactly the channels of the streams still
\* running, each once under its job id, and maps no job id to an empty list.
Thm_C17 ==
    /\ \A j \in DOMAIN subscribers : subscribers[j] # <<>>
    /\ \A j \in JobIds : \A s \in Streams :
         Cardinality({ i \in 1..Len(ListOf(subscribers, j)) : ListOf(subscribers, j)[i] = s })
           = IF s \in Running /\ sjob[s] = j THEN 1 ELSE 0

\* C17 witness: one stream has ended on a terminal event and one was torn
\* down by its consumer; the registry is empty again.
Witness_C17 ==
    /\ spc[1] = "done"
    /\ spc[2] = "closed"
    /\ DOMAIN subscribers = {}

\* C18: the events a stream yields carry strictly increasing broadcast
\* numbers: they come in publication order and none comes twice.
Thm_C18 ==
    \A s \in Streams :
        LET ds == DataSeqs(yielded[s])
        IN \A i, k \in 1..Len(ds) : i < k => ds[i] < ds[k]

\* C18 witness: a stream has yielded two events that were both in its
\* channel before it took the first.
Witness_C18 ==
    \E s \in Streams :
        /\ Len(DataSeqs(yielded[s])) >= 2
        /\ Len(chan[s]) >= 1
        /\ since[s] = 0

\* C19: a keepalive is yielded only by a stream whose channel is empty; the
\* stream stays registered, and once resumed waits again; a stream for whose
\* job id nothing was published since it subscribed has yielded keepalives
\* only.
Thm_C19 ==
    [][\A s \in Streams :
         /\ Len(yielded'[s]) > Len(yielded[s]) /\ yielded'[s][Len(yielded'[s])] = Keepalive
              => /\ chan[s] = <<>>
                 /\ yielded'[s] = Append(yielded[s], Keepalive)
                 /\ InList(ListOf(subscribers', sjob[s]), s)
         /\ (spc[s] = "yield_ka" /\ spc'[s] # "yield_ka" /\ spc'[s] # "closed")
              => /\ spc'[s] = "wait"
                 /\ InList(ListOf(subscribers', sjob[s]), s)
         /\ PublishedFor(pub_log', sjob'[s], since'[s]) = <<>>
              => \A i \in 1..Len(yielded'[s]) : yielded'[s][i] = Keepalive]_bvars

\* C19 witness: a stream has yielded a keepalive, waits again, and nothing
\* was published for its job id although another job id had events.
Witness_C19 ==
    \E s \in Streams :
        /\ yielded[s] = <<Keepalive>>
        /\ spc[s] = "wait"
        /\ pub_log # <<>>
        /\ PublishedFor(pub_log, sjob[s], since[s]) = <<>>

\* ------------------------------------------------ claims on inject_params

\* The addresses of the objects of the graph rooted at r in heap h: the root,
\* its nodes and their inputs mappings.
Reach(h, r) ==
    {r} \cup { h.roots[r][n] : n \in DOMAIN h.roots[r] }
        \cup { h.nodes[h.roots[r][n]].inputs :
                 n \in { m \in DOMAIN h.roots[r] : h.nodes[h.roots[r][m]].inputs # 0 } }

\* C20: during and after a call of inject_params every object of the graph
\* passed in (root, nodes, inputs mappings) equals what it was before the
\* call, and the graph the call works on and returns shares no object with
\* it.
Thm_C20 ==
    ipc \in {"loop", "done"} =>
        /\ \A a \in DOMAIN before.roots : heap.roots[a] = before.roots[a]
        /\ \A a \in DOMAIN before.nodes : heap.nodes[a] = before.nodes[a]
        /\ \A a \in DOMAIN before.inputs : heap.inputs[a] = before.inputs[a]
        /\ Reach(heap, wf) \cap Reach(heap, arg) = {}

\* C20 witness: a call on a graph of two nodes has returned a graph in which
\* both nodes' inputs differ from those of the argument.
Witness_C20 ==
    /\ ipc = "done"
    /\ DOMAIN heap.roots[arg] = {1, 2}
    /\ \A n \in {1, 2} :
         /\ heap.nodes[heap.roots[arg][n]].inputs # 0
         /\ heap.inputs[heap.nodes[heap.roots[wf][n]].inputs]
              # heap.inputs[heap.nodes[heap.roots[arg][n]].inputs]

\* The class_type values inject_params has a branch for.
Recognized ==
    {"CLIPTextEncode", "EmptyLatentImage", "EmptySD3LatentImage",
     "EmptyHunyuanLatentVideo", "KSampler", "KSamplerAdvanced"}

\* Node n of the argument and of the returned graph, and their inputs.
NodeIn(n) == heap.nodes[heap.roots[arg][n]]
NodeOut(n) == heap.nodes[heap.roots[wf][n]]
InputsIn(n) == IF NodeIn(n).inputs = 0 THEN <<>> ELSE heap.inputs[NodeIn(n).inputs]
InputsOut(n) == IF NodeOut(n).inputs = 0 THEN <<>> ELSE heap.inputs[NodeOut(n).inputs]

\* Node n of the returned graph is deep-equal to node n of the argument.
SameNode(n) ==
    /\ NodeOut(n).class_type = NodeIn(n).class_type
    /\ NodeOut(n).title = NodeIn(n).title
    /\ (NodeOut(n).inputs = 0) = (NodeIn(n).inputs = 0)
    /\ DOMAIN InputsOut(n) = DOMAIN InputsIn(n)
    /\ \A f \in DOMAIN InputsIn(n) : InputsOut(n)[f] = InputsIn(n)[f]

\* C21: the returned graph has the node ids of the argument and each node the
\* field names it had, and every node whose class_type is not a recognized
\* one is returned equal to the argument's.
CE_C21 ==
    ipc = "done" =>
        /\ DOMAIN heap.roots[wf] = DOMAIN heap.roots[arg]
        /\ \A n \in DOMAIN heap.roots[arg] :
             /\ DOMAIN InputsOut(n) = DOMAIN InputsIn(n)
             /\ NodeIn(n).class_type \notin Recognized => SameNode(n)

\* C22: a call with an empty params mapping returns a graph deep-equal to
\* the argument.
CE_C22 ==
    (ipc = "done" /\ DOMAIN params = {}) =>
        /\ DOMAIN heap.roots[wf] = DOMAIN heap.roots[arg]
        /\ \A n \in DOMAIN heap.roots[arg] : SameNode(n)

\* The (node, field) pairs of the returned graph named seed or noise_seed.
SeedFields ==
    { <<n, f>> \in (DOMAIN heap.roots[wf]) \X {"seed", "noise_seed"} :
        f \in DOMAIN InputsOut(n) }

\* Those of them on sampler nodes.
SamplerSeedFields ==
    { nf \in SeedFields : NodeOut(nf[1]).class_type \in {"KSampler", "KSamplerAdvanced"} }

\* v is an unsigned 32-bit value: 0 <= v <= 2^32 - 1.
IsUInt32(v) == v >= 0 /\ v \div 65536 <= 65535

\* What the seed fields in fs must hold after the call: the params' seed
\* when it is given and not -1, otherwise one common unsigned 32-bit value.
SeedsResolved(fs) ==
    IF Get(params, "seed", -1) # -1
    THEN \A nf \in fs : InputsOut(nf[1])[nf[2]] = params.seed
    ELSE /\ \A nf \in fs : IsUInt32(InputsOut(nf[1])[nf[2]])
         /\ \A a, b \in fs : InputsOut(a[1])[a[2]] = InputsOut(b[1])[b[2]]

\* C23 as stated: every field named seed or noise_seed in the returned graph
\* holds the resolved seed.
CE_C23 == ipc = "done" => SeedsResolved(SeedFields)

\* C23, amended: every seed or noise_seed field of a sampler node (KSampler,
\* KSamplerAdvanced) in the returned graph holds the resolved seed; such
\* fields on nodes of other types keep their value.
Thm_C23 ==
    ipc = "done" =>
        /\ SeedsResolved(SamplerSeedFields)
        /\ \A nf \in SeedFields \ SamplerSeedFields :
             InputsOut(nf[1])[nf[2]] = InputsIn(nf[1])[nf[2]]

\* C23 witness: a call with seed -1 on a graph of two samplers, one with a
\* seed and one with a noise_seed field, has returned.
Witness_C23 ==
    /\ ipc = "done"
    /\ Get(params, "seed", 0) = -1
    /\ SamplerSeedFields = {<<1, "seed">>, <<2, "noise_seed">>}

\* C24: a poll answered with a history entry that holds "error" takes
\* submit_workflow out by raising at once, with the reported text: no
\* progress report, no download, no further poll, nothing written; and the
\* worker's terminal commit that follows persists FAILED with that text in
\* error_message and no result files.
Thm_C24 ==
    [][\A t \in Tasks :
         /\ PollAnswer(t, "error", MaxPolls) =>
              /\ pc'[t] = "commit_final"
              /\ xpc'[t] = "none"
              /\ job'[t].status = FAILED
              /\ job'[t].error_message = Some(HistoryErrorText)
              /\ job'[t].result_files = None
              /\ store' = store
              /\ published' = published
         /\ (job[t].error_message = Some(HistoryErrorText) /\ FinalCommit(t)) =>
              /\ store'[cur[t]].status = FAILED
              /\ store'[cur[t]].error_message = Some(HistoryErrorText)
              /\ store'[cur[t]].result_files = None
              /\ published'[cur[t]] = Some([status |-> FAILED,
                                            progress |-> job[t].progress,
                                            error_message |-> Some(HistoryErrorText)])
      ]_allvars

\* C24 witness: a job is persisted FAILED with the reported history error.
Witness_C24 ==
    \E j \in DOMAIN store :
        /\ store[j].status = FAILED
        /\ store[j].error_message = Some(HistoryErrorText)

\* submit_workflow has raised the RuntimeError of line 192 (in the primed
\* state): the worker is at its terminal commit with FAILED and the text
\* that names the prompt_id.
TimedOut ==
    /\ pc'[1] = "commit_final"
    /\ job'[1].status = FAILED
    /\ job'[1].error_message = Some(TimeoutText)

\* C25: submit_workflow begins a poll turn only with elapsed < max_wait, so
\* it polls at most max_wait / poll_interval = 600 times; when the last turn
\* the bound allows finds no history entry (a non-200 answer, or an answer
\* without the prompt_id followed by its progress report), it raises the
\* error that names the prompt_id; and every run of it ends, by returning
\* or raising.
Thm_C25 ==
    /\ [](/\ elapsed[1] <= max_wait
          /\ elapsed[1] % poll_interval = 0
          /\ xpc[1] = "r_poll" => elapsed[1] < max_wait)
    /\ [][/\ (PollAnswer(1, "non200", max_wait)
                /\ elapsed[1] + poll_interval >= max_wait) => TimedOut
          /\ (xpc[1] = "r_ramp" /\ elapsed[1] >= max_wait /\ ExecProgress(1))
                => TimedOut
         ]_allvars
    /\ <>(xpc[1] = "none")

\* C25 witness: the bound was reached with no history entry seen and the
\* RuntimeError naming the prompt_id is being handled.  (The same error
\* after an entry without outputs comes after the report of 95.)
Witness_C25 ==
    /\ pc[1] = "commit_final"
    /\ job[1].error_message = Some(TimeoutText)
    /\ job[1].progress # 95

\* In a run without store faults and before shutdown.
Undisturbed == nfaults = 0 /\ phase # "stopped"

\* C26: in every state of the store, a job whose result_text or
\* result_files is non-null has status COMPLETED.
CE_C26 ==
    Undisturbed =>
        \A j \in DOMAIN store :
            (store[j].result_text # None \/ store[j].result_files # None)
                => store[j].status = COMPLETED

\* C27: in every state of the store, a job with a non-null error_message
\* has status FAILED, and every FAILED job has a non-null error_message.
CE_C27 ==
    Undisturbed =>
        \A j \in DOMAIN store :
            (store[j].error_message # None) <=> (store[j].status = FAILED)

\* C28: in every state of the store, started_at is null for a job that was
\* never committed RUNNING, and completed_at is non-null for every job whose
\* status is COMPLETED, FAILED or CANCELLED.
CE_C28 ==
    Undisturbed =>
        \A j \in DOMAIN store :
            /\ store[j].started_at # None => InList(run_order, j)
            /\ store[j].status \in Terminal => store[j].completed_at # None

\* The processing of job j is over: the image_generations request that
\* created it has returned or raised, or the worker has dequeued it and
\* gone back to the queue.
Over(j) ==
    IF mreq[j].pc # "none"
    THEN mreq[j].pc \in {"done", "raised"}
    ELSE InList(deq_order, j) /\ \A t \in Tasks : cur[t] # j

\* The number of images job j's request asks for.
Requested(j) == IF mreq[j].pc # "none" THEN mreq[j].n ELSE n_default

\* C29: with mock_error_rate = 1.0, a MOCK job whose processing is over is
\* persisted FAILED with a non-empty error_message (and so is not RUNNING).
CE_C29 ==
    mock_error_rate = 10 =>
        \A j \in DOMAIN store :
            Over(j) =>
                /\ store[j].status = FAILED
                /\ store[j].error_message # None
                /\ store[j].error_message # Some("")

\* Job j is persisted COMPLETED at progress 100 with as many result files as
\* its request asked for.
CompletedWithAll(j) ==
    /\ store[j].status = COMPLETED
    /\ store[j].progress = 100
    /\ store[j].result_files # None
    /\ Len(store[j].result_files[1]) = Requested(j)

\* C30: with mock_error_rate = 0, every MOCK IMAGE job, created by the mock
\* endpoint with n in 1..10 or by the UI form, comes to the end of its
\* processing, and is then COMPLETED at progress 100 with exactly n entries
\* in result_files.
Thm_C30 ==
    /\ [](mock_error_rate = 0 =>
            \A j \in DOMAIN store : Over(j) => CompletedWithAll(j))
    /\ \A j \in JobIds :
         [](mock_error_rate = 0 /\ j \in DOMAIN store => <>Over(j))

\* C30 witness: at mock_error_rate = 0 a request for the most images the
\* schema accepts has returned, next to a job the worker has finished.
Witness_C30 ==
    /\ mock_error_rate = 0
    /\ \E j, k \in DOMAIN store :
         /\ mreq[j].pc = "done" /\ mreq[j].n = n_le
         /\ mreq[k].pc = "none" /\ Over(k)

\* C31: a REAL job with no workflow name in its payload, run with no
\* workflow stored, leaves execute_job by the configuration error straight
\* after progress(1): nothing is written or published by that step and the
\* rendering service is not called; the worker's terminal commit persists
\* FAILED with the configuration-error text; and neither the job's row nor
\* any event for it ever shows a progress above 1.
Thm_C31 ==
    /\ [][\A t \in Tasks :
            /\ ResolveWorkflow(t, FALSE, FALSE, FALSE) =>
                 /\ pc'[t] = "commit_final"
                 /\ xpc'[t] = "none"
                 /\ job'[t].status = FAILED
                 /\ job'[t].error_message = Some(ConfigErrorText)
                 /\ job'[t].progress <= 1
                 /\ store' = store
                 /\ published' = published
            /\ (job[t].error_message = Some(ConfigErrorText) /\ FinalCommit(t)) =>
                 /\ store'[cur[t]].status = FAILED
                 /\ store'[cur[t]].error_message = Some(ConfigErrorText)
                 /\ published'[cur[t]] = Some([status |-> FAILED,
                                               progress |-> job[t].progress,
                                               error_message |-> Some(ConfigErrorText)])
         ]_allvars
    /\ [](\A t \in Tasks :
            ((pc[t] = "exec" /\ xpc[t] = "r_resolve")
               \/ job[t].error_message = Some(ConfigErrorText)) =>
                 /\ store[cur[t]].progress <= 1
                 /\ published[cur[t]] # None => published[cur[t]][1].progress <= 1)
    /\ [](\A j \in DOMAIN store :
            store[j].error_message = Some(ConfigErrorText) =>
                 /\ store[j].progress <= 1
                 /\ store[j].result_files = None
                 /\ published[j] # None => published[j][1].progress <= 1)

\* C31 witness: a REAL job is persisted FAILED with the configuration error.
Witness_C31 ==
    \E j \in DOMAIN store :
        /\ store[j].mode = "real"
        /\ store[j].status = FAILED
        /\ store[j].error_message = Some(ConfigErrorText)
        /\ store[j].progress = 1

\* C32: when the lookup for a dequeued id returns no row, or a row whose
\* status is not PENDING, the worker changes no row, publishes nothing and
\* is back at the queue for the next id.
Thm_C32 ==
    [][\A t \in Tasks :
         ( /\ pc[t] = "lookup"
           /\ pc'[t] # "lookup"
           /\ phase' = phase
           /\ nfaults' = nfaults
           /\ cur[t] \in DOMAIN store => store[cur[t]].status # PENDING )
         => /\ store' = store
            /\ published' = published
            /\ queue' = queue
            /\ pc'[t] = "get"
            /\ cur'[t] = 0
      ]_allvars

\* C32 witness: an id was dequeued whose row a cancel request had set to
\* CANCELLED; the worker has dropped it and taken the next id from the
\* queue, and nothing was ever published for the dropped one.
Witness_C32 ==
    \E j, k \in DOMAIN store, t \in Tasks :
        /\ InList(deq_order, j)
        /\ ~InList(run_order, j)
        /\ store[j].status = CANCELLED
        /\ published[j] = None
        /\ j # k
        /\ cur[t] = k
        /\ Pos(deq_order, j) < Pos(deq_order, k)

\* C33: the step that commits a job RUNNING publishes {status: running,
\* progress: 0} for it, and the first event ever published for a job is that
\* event.
CE_C33 ==
    [][Regular =>
       \A j \in JobIds :
         /\ (~InList(run_order, j) /\ InList(run_order', j)) =>
                published'[j] = Some([status |-> RUNNING, progress |-> 0])
         /\ (published[j] = None /\ published'[j] # None) =>
                published'[j] = Some([status |-> RUNNING, progress |-> 0])
      ]_allvars

\* C34: a poll turn, before the last the bound allows, in which the history
\* request raises a transport error, is answered with a non-200 status, or
\* is answered without the prompt_id, leaves submit_workflow polling: it
\* neither raises nor returns, and the estimate it reports is at most 80 and
\* not below the estimate of an earlier turn.
CE_C34 ==
    [][( /\ pc[1] = "exec"
         /\ xpc[1] = "r_poll"
         /\ elapsed[1] + poll_interval < max_wait
         /\ \/ \E msg \in ErrMsgs : ExecRaises(1, msg)
            \/ PollAnswer(1, "non200", max_wait)
            \/ PollAnswer(1, "absent", max_wait) )
       => /\ pc'[1] = "exec"
          /\ xpc'[1] \in {"r_poll", "r_ramp"}
          /\ elapsed'[1] = elapsed[1] + poll_interval
          /\ RampPct(elapsed'[1]) <= 80
          /\ RampPct(elapsed'[1]) >= RampPct(elapsed[1])
      ]_allvars

\* The entries of seq whose attempt succeeded, in order, from position i on.
RECURSIVE Succeeded(_, _, _)
Succeeded(seq, oks, i) ==
    IF i > Len(seq) THEN <<>>
    ELSE (IF oks[i] THEN <<seq[i]>> ELSE <<>>) \o Succeeded(seq, oks, i + 1)

Thm_C36 ==
    [][\A j \in JobIds :
         /\ CancelReadRec(j, TRUE) =>
              /\ store' = store
              /\ published' = published
              /\ cancel_response' = "404" <=> j \notin DOMAIN store
              /\ cancel_response' = "400" <=>
                     (j \in DOMAIN store /\ store[j].status \in Terminal)
              /\ creq'[j] <=>
                     (j \in DOMAIN store /\ store[j].status \in {PENDING, RUNNING})
         /\ (j \in DOMAIN store /\ store'[j].status = CANCELLED
               /\ store[j].status # CANCELLED) =>
              /\ creq[j] /\ ~creq'[j]
              /\ store' = [store EXCEPT ![j].status = CANCELLED]
      ]_allvars

\* C36 witness: the last cancel request read a COMPLETED row and answered
\* 400 (the row is unchanged and no commit is pending), another job was
\* cancelled by a request, and an id has no row.
Witness_C36 ==
    /\ cancel_response = "400"
    /\ \E j, k \in DOMAIN store :
         /\ store[j].status = COMPLETED /\ ~creq[j]
         /\ store[k].status = CANCELLED

\* C37: unsubscribe(job_id, q) for a channel that is not in job_id's list
\* leaves the registry exactly as it found it, so every other registration
\* stays and no entry for job_id appears; and after any unsubscribe(job_id,
\* q) a second call with the same arguments changes nothing.
Thm_C37 ==
    [][\A job_id \in JobIds, q \in Streams :
         RegUnsubscribe(job_id, q) =>
           /\ (\A i \in 1..Len(ListOf(subscribers, job_id)) :
                   subscribers[job_id][i] # q)
                => /\ subscribers' = subscribers
                   /\ job_id \notin DOMAIN subscribers => job_id \notin DOMAIN subscribers'
           /\ unsubscribe(subscribers', job_id, q) = subscribers'
           /\ \A k \in DOMAIN subscribers' : subscribers'[k] # <<>>
      ]_allvars

\* C37 witness: the last unsubscribe was called for a job id that had no
\* entry while another job id had a channel registered, and the registry is
\* still the one the call found.
Witness_C37 ==
    /\ last_unsub # None
    /\ LET r == last_unsub[1]
       IN /\ r.job_id \notin DOMAIN r.before
          /\ r.before # <<>>
          /\ subscribers = r.before

\* C38: a submit handler commits its row with status PENDING and only then
\* enqueues the id, once: a row is PENDING and not yet enqueued when it is
\* committed, exists when its id is enqueued, no id is enqueued twice, and
\* every id the worker has dequeued or is looking up has its row.
Thm_C38 ==
    /\ [](/\ \A i, k \in 1..Len(enq_order) : i # k => enq_order[i] # enq_order[k]
          /\ \A i \in 1..Len(enq_order) : enq_order[i] \in DOMAIN store
          /\ \A i \in 1..Len(deq_order) : deq_order[i] \in DOMAIN store
          /\ \A t \in Tasks : pc[t] = "lookup" => cur[t] \in DOMAIN store)
    /\ [][/\ \A id \in JobIds :
               SubmitEnqueue(id) =>
                 /\ id \in DOMAIN store
                 /\ ~InList(enq_order, id)
                 /\ store[id].started_at = None
          /\ \A id \in DOMAIN store' \ DOMAIN store :
               /\ store'[id].status = PENDING
               /\ ~InList(enq_order', id)
               /\ queue' = queue
         ]_allvars

\* C38 witness: the worker is looking up the REAL job it dequeued second;
\* both rows exist and each id was enqueued once.
Witness_C38 ==
    /\ Len(enq_order) = 2
    /\ Len(deq_order) = 2
    /\ \E t \in Tasks :
         /\ pc[t] = "lookup"
         /\ cur[t] = deq_order[2]
         /\ store[cur[t]].mode = "real"
         /\ store[cur[t]].status = PENDING

\* C39: while the worker keeps running, a job whose row is RUNNING eventually
\* has a terminal persisted status, also when a store operation raised
\* meanwhile.
CE_C39 ==
    \A j \in JobIds :
        (j \in DOMAIN store /\ store[j].status = RUNNING)
          ~> (j \in DOMAIN store /\ store[j].status \in Terminal)

\* C40: once the terminal event of a job has gone out (a stream of the job
\* has yielded it, so the job's terminal status was committed before), every
\* stream of that job that is running eventually terminates, whenever it was
\* opened.
CE_C40 ==
    \A s \in Streams :
        ( /\ s \in Running
          /\ \E u \in Streams :
               /\ sjob[u] = sjob[s]
               /\ \E i \in 1..Len(yielded[u]) : TerminalMessage(yielded[u][i]) )
          ~> (s \notin Running)

====
